---- MODULE Spec2Model ----
(***************************************************************************)
(* A model of the FYI Guard verdict engine (GuardService.evaluate and its  *)
(* six checks) and of the Express guard middleware that wraps it.          *)
(*                                                                         *)
(* Strings the code matches with regular expressions are modelled as       *)
(* sequences of tokens: a token is a maximal run of word characters        *)
(* (letters, digits, underscore), a single blank, or a single punctuation  *)
(* character.  The regular expressions are translated element by element   *)
(* to token patterns and matched by RegexTest as RegExp.prototype.test     *)
(* matches them (unanchored, case-insensitive, no global flag).            *)
(***************************************************************************)
EXTENDS Integers, Sequences, FiniteSets, TLC

\* -------------------------------------------------------------------------
\* Bounds of the model
\* -------------------------------------------------------------------------

\* how many times the same context is evaluated in a row
MaxEvals == 2
\* how many clock ticks may elapse during a run
MaxTicks == 1
\* how many writes by other processes to the directory store during a run
MaxStoreWrites == 1
\* how many DETECTION_EVENT messages the service worker receives during a run
MaxDetectionEvents == 52
\* how many detection handlers may wait for chrome.storage at once
MaxStoring == 2
\* how many uploads may be in flight at once
MaxFlights == 1

\* -------------------------------------------------------------------------
\* JavaScript values
\* -------------------------------------------------------------------------

\* the value of an optional string field that is not set
UNDEF == "<undefined>"

\* !x for a string-or-undefined x: undefined and the empty string are falsy
Falsy(x) == x = UNDEF \/ x = ""

\* an optional collection: has = FALSE is undefined
None == [has |-> FALSE, v |-> <<>>]
Some(x) == [has |-> TRUE, v |-> x]

\* -------------------------------------------------------------------------
\* Token strings and String.prototype.toLowerCase
\* -------------------------------------------------------------------------

\* the tokens that are written with upper-case letters, and their lower case
UpperTokens ==
  [ t \in {"BYPASS", "TRUE", "Ignore", "SuperAdmin", "__ADMIN__",
           "ACME.COM", "Acme.com", "UNION", "SELECT"} |->
      CASE t = "BYPASS"     -> "bypass"
        [] t = "TRUE"       -> "true"
        [] t = "Ignore"     -> "ignore"
        [] t = "SuperAdmin" -> "superadmin"
        [] t = "__ADMIN__"  -> "__admin__"
        [] t = "ACME.COM"   -> "acme.com"
        [] t = "Acme.com"   -> "acme.com"
        [] t = "UNION"      -> "union"
        [] t = "SELECT"     -> "select" ]

toLowerCase(t) == IF t \in DOMAIN UpperTokens THEN UpperTokens[t] ELSE t

\* tokens that are not made of word characters (\W): blank and punctuation
NonWordTokens == {" ", "=", ":", "'", "\"", "{", "}", ",", ";", "<", ">", "-", "--", "."}

IsWordToken(t) == t \notin NonWordTokens

\* -------------------------------------------------------------------------
\* Regular expressions over token strings
\* -------------------------------------------------------------------------

\* pattern elements
Lit(S) == [k |-> "lit", s |-> S]      \* one token whose lower case is in S
Opt(S) == [k |-> "opt", s |-> S]      \* x? for a token in S
WsStar == [k |-> "ws*", s |-> {}]     \* \s*
WsPlus == [k |-> "ws+", s |-> {}]     \* \s+
Ws1    == [k |-> "ws1", s |-> {}]     \* \s
WordB  == [k |-> "b",   s |-> {}]     \* \b
NotGt  == [k |-> "[^>]*", s |-> {}]   \* [^>]*
EndS   == [k |-> "$",   s |-> {}]     \* $
Digits == {"0", "1", "2"}             \* \d+ as one token

\* \b at position i: exactly one side of the gap before str[i] is a word token
AtWordBoundary(str, i) ==
  LET left  == i > 1 /\ i - 1 <= Len(str) /\ IsWordToken(str[i - 1])
      right == i >= 1 /\ i <= Len(str) /\ IsWordToken(str[i])
  IN  left # right

RECURSIVE MatchFrom(_, _, _)
\* does the element sequence pat match str starting at position i
MatchFrom(pat, str, i) ==
  IF pat = <<>> THEN TRUE
  ELSE
    LET e    == Head(pat)
        rest == Tail(pat)
        more == i <= Len(str)
    IN  CASE e.k = "lit" ->
               more /\ toLowerCase(str[i]) \in e.s /\ MatchFrom(rest, str, i + 1)
          [] e.k = "opt" ->
               \/ (more /\ toLowerCase(str[i]) \in e.s /\ MatchFrom(rest, str, i + 1))
               \/ MatchFrom(rest, str, i)
          [] e.k = "ws*" ->
               \/ MatchFrom(rest, str, i)
               \/ (more /\ str[i] = " " /\ MatchFrom(pat, str, i + 1))
          [] e.k = "ws+" ->
               more /\ str[i] = " " /\ MatchFrom(<<WsStar>> \o rest, str, i + 1)
          [] e.k = "ws1" ->
               more /\ str[i] = " " /\ MatchFrom(rest, str, i + 1)
          [] e.k = "[^>]*" ->
               \/ MatchFrom(rest, str, i)
               \/ (more /\ str[i] # ">" /\ MatchFrom(pat, str, i + 1))
          [] e.k = "b" ->
               AtWordBoundary(str, i) /\ MatchFrom(rest, str, i)
          [] e.k = "$" ->
               i = Len(str) + 1 /\ MatchFrom(rest, str, i)

\* RegExp.prototype.test for a regex given as the set of its alternatives
RegexTest(alts, str) ==
  \E a \in alts : \E i \in 1..(Len(str) + 1) : MatchFrom(a, str, i)

\* -------------------------------------------------------------------------
\* Pattern catalogs
\* -------------------------------------------------------------------------

\* /('\s*(OR|AND)\s+\d+\s*=\s*\d+|;\s*(DROP|DELETE|UPDATE|INSERT|ALTER)\s|UNION\s+SELECT|--\s*$)/i
SQL_INJECTION ==
  { <<Lit({"'"}), WsStar, Lit({"or", "and"}), WsPlus, Lit(Digits), WsStar,
      Lit({"="}), WsStar, Lit(Digits)>>,
    <<Lit({";"}), WsStar, Lit({"drop", "delete", "update", "insert", "alter"}), Ws1>>,
    <<Lit({"union"}), WsPlus, Lit({"select"})>>,
    <<Lit({"--"}), WsStar, EndS>> }

\* /(<script[^>]*>|javascript\s*:|on(load|error|click|mouseover)\s*=)/i
XSS_INJECTION ==
  { <<Lit({"<"}), Lit({"script"}), NotGt, Lit({">"})>>,
    <<Lit({"javascript"}), WsStar, Lit({":"})>>,
    <<Lit({"onload", "onerror", "onclick", "onmouseover"}), WsStar, Lit({"="})>> }

\* /(ignore\s+(previous|prior|all)\s+instructions|disregard\s+(all\s+)?instructions|
\*   you\s+are\s+now|new\s+system\s+prompt|forget\s+(everything|all))/i
PROMPT_INJECTION ==
  { <<Lit({"ignore"}), WsPlus, Lit({"previous", "prior", "all"}), WsPlus,
      Lit({"instructions"})>>,
    <<Lit({"disregard"}), WsPlus, Lit({"all"}), WsPlus, Lit({"instructions"})>>,
    <<Lit({"disregard"}), WsPlus, Lit({"instructions"})>>,
    <<Lit({"you"}), WsPlus, Lit({"are"}), WsPlus, Lit({"now"})>>,
    <<Lit({"new"}), WsPlus, Lit({"system"}), WsPlus, Lit({"prompt"})>>,
    <<Lit({"forget"}), WsPlus, Lit({"everything", "all"})>> }

\* /\b(superadmin|ADMIN_OVERRIDE|system\s*admin|root\s*access)\b/i
ROLE_IMPERSONATION ==
  { <<WordB, Lit({"superadmin", "admin_override"}), WordB>>,
    <<WordB, Lit({"system"}), WsStar, Lit({"admin"}), WordB>>,
    <<WordB, Lit({"systemadmin", "rootaccess"}), WordB>>,
    <<WordB, Lit({"root"}), WsStar, Lit({"access"}), WordB>> }

MALICIOUS_PATTERNS ==
  << [name |-> "SQL_INJECTION",      pattern |-> SQL_INJECTION],
     [name |-> "XSS_INJECTION",      pattern |-> XSS_INJECTION],
     [name |-> "PROMPT_INJECTION",   pattern |-> PROMPT_INJECTION],
     [name |-> "ROLE_IMPERSONATION", pattern |-> ROLE_IMPERSONATION] >>

\* the override signatures; each is case-insensitive and unanchored
OVERRIDE_PATTERNS ==
  << [name |-> "ADMIN_KEY",   pattern |-> { <<Lit({"__admin__"})>> }],
     [name |-> "BYPASS_FLAG",
      pattern |-> { <<Lit({"bypass"}), WsStar, Lit({"="}), WsStar, Lit({"true"})>> }],
     [name |-> "ROLE_OVERRIDE",
      pattern |-> { <<Lit({"role"}), WsStar, Lit({"=", ":"}), WsStar,
                      Opt({"'", "\""}), Lit({"superadmin"})>> }],
     [name |-> "GRANT_ALL",   pattern |-> { <<Lit({"grant_all"})>> }],
     [name |-> "FORCE_AUTH",
      pattern |-> { <<Lit({"force_auth"}), WsStar, Lit({"="}), WsStar, Lit({"true"})>> }],
     \* /\belevate_privilege|admin_token|master_key\b/i
     [name |-> "PRIVILEGE_ESCALATION",
      pattern |-> { <<WordB, Lit({"elevate_privilege"})>>,
                    <<Lit({"admin_token"})>>,
                    <<Lit({"master_key"}), WordB>> }] >>

\* -------------------------------------------------------------------------
\* Role matrix and seat caps
\* -------------------------------------------------------------------------

UserRoles == {"member", "org_admin", "superadmin"}

GuardActions ==
  {"view_own_profile", "view_org_members", "change_org_settings",
   "change_domain_plan", "add_remove_domains", "promote_to_org_admin",
   "delete_any_user", "grant_free_forever"}

ACTION_MIN_ROLE ==
  [ a \in GuardActions |->
      CASE a = "view_own_profile"     -> "member"
        [] a = "view_org_members"     -> "org_admin"
        [] a = "change_org_settings"  -> "org_admin"
        [] a = "change_domain_plan"   -> "superadmin"
        [] a = "add_remove_domains"   -> "superadmin"
        [] a = "promote_to_org_admin" -> "superadmin"
        [] a = "delete_any_user"      -> "superadmin"
        [] a = "grant_free_forever"   -> "superadmin" ]

ROLE_HIERARCHY ==
  [ r \in UserRoles |->
      CASE r = "member" -> 0 [] r = "org_admin" -> 1 [] r = "superadmin" -> 2 ]

\* Infinity
INFINITY == 1000000

PLAN_SEAT_LIMITS ==
  [ p \in {"free_trial", "pro", "enterprise", "free_forever"} |->
      CASE p = "free_trial"   -> 5
        [] p = "pro"          -> 25
        [] p = "enterprise"   -> INFINITY
        [] p = "free_forever" -> INFINITY ]

\* -------------------------------------------------------------------------
\* GuardService: helpers
\* -------------------------------------------------------------------------

\* no verdict: the null a check returns when it has no opinion
NULLV ==
  [ verdict |-> "null", reason |-> "", detail |-> <<>>, risk_level |-> "",
    action_taken |-> "", timestamp |-> 0,
    user |-> [email |-> <<>>, domain |-> "", role |-> ""] ]

\* GuardService.verdict; detail is the template's pieces, ts is new Date()
MkVerdict(v, reason, detail, risk, actionTaken, email, domain, role, ts) ==
  [ verdict |-> v, reason |-> reason, detail |-> detail, risk_level |-> risk,
    action_taken |-> actionTaken, timestamp |-> ts,
    user |-> [email |-> email, domain |-> domain, role |-> role] ]

\* a slip: the domain is taken as it was typed
extractDomainRaw(email) == IF Len(email) >= 2 THEN email[2] ELSE ""

\* an email is the sequence of its pieces between '@' signs (String.split('@'))
extractDomain(email) == IF Len(email) >= 2 THEN toLowerCase(email[2]) ELSE ""

\* a slip: the role must be exactly the required one
hasRoleExact(userRole, requiredRole) ==
  ROLE_HIERARCHY[userRole] = ROLE_HIERARCHY[requiredRole]

\* ROLE_HIERARCHY[userRole] >= ROLE_HIERARCHY[requiredRole]
hasRole(userRole, requiredRole) ==
  ROLE_HIERARCHY[userRole] >= ROLE_HIERARCHY[requiredRole]

RECURSIVE JoinEntries(_)
\* "k":"v" entries of an object, joined with commas
JoinEntries(entries) ==
  IF entries = <<>> THEN <<>>
  ELSE LET e == Head(entries)
           one == <<"\"">> \o e[1] \o <<"\"", ":", "\"">> \o e[2] \o <<"\"">>
       IN  IF Len(entries) = 1 THEN one
           ELSE one \o <<",">> \o JoinEntries(Tail(entries))

\* JSON.stringify of a flat object of strings
JSONStringify(obj) == <<"{">> \o JoinEntries(obj) \o <<"}">>

\* `${key}=${value}`
HeaderString(e) == e[1] \o <<"=">> \o e[2]

\* a slip: the headers are left out of the scan
collectAllStringsNoHeaders(ctx) ==
  (IF ctx.textInputs.has THEN ctx.textInputs.v ELSE <<>>)
  \o (IF ctx.payload.has THEN <<JSONStringify(ctx.payload.v)>> ELSE <<>>)

\* the strings the override scan reads: the text inputs, the serialized payload
\* and one key=value string per header
collectAllStrings(ctx) ==
  (IF ctx.textInputs.has THEN ctx.textInputs.v ELSE <<>>)
  \o (IF ctx.payload.has THEN <<JSONStringify(ctx.payload.v)>> ELSE <<>>)
  \o (IF ctx.headers.has
        THEN [i \in 1..Len(ctx.headers.v) |-> HeaderString(ctx.headers.v[i])]
        ELSE <<>>)

\* the first (string, rule) pair, strings outermost, whose rule matches: <<i, j>>,
\* or <<0, 0>> when no rule matches any string
FirstMatch(strings, rules) ==
  LET hits == { p \in (1..Len(strings)) \X (1..Len(rules)) :
                  RegexTest(rules[p[2]].pattern, strings[p[1]]) }
  IN  IF hits = {} THEN <<0, 0>>
      ELSE CHOOSE p \in hits :
             \A q \in hits : p[1] < q[1] \/ (p[1] = q[1] /\ p[2] <= q[2])

\* -------------------------------------------------------------------------
\* GuardService: the three synchronous checks
\* -------------------------------------------------------------------------

checkOverrideAttempt(ctx, ts) ==
  LET domain == extractDomain(ctx.userEmail)
      m      == FirstMatch(collectAllStrings(ctx), OVERRIDE_PATTERNS)
  IN  IF m[2] # 0
        THEN MkVerdict("BLOCK", "OVERRIDE_ATTEMPT",
                       <<"Override attempt detected", OVERRIDE_PATTERNS[m[2]].name>>,
                       "critical", "session_terminated",
                       ctx.userEmail, domain, ctx.userRole, ts)
        ELSE NULLV

checkMaliciousInput(ctx, ts) ==
  LET domain     == extractDomain(ctx.userEmail)
      textInputs == IF ctx.textInputs.has THEN ctx.textInputs.v ELSE <<>>
      m          == FirstMatch(textInputs, MALICIOUS_PATTERNS)
  IN  IF m[2] # 0
        THEN MkVerdict("BLOCK", "MALICIOUS_INPUT_DETECTED",
                       <<"Malicious input detected", MALICIOUS_PATTERNS[m[2]].name>>,
                       "high", "blocked",
                       ctx.userEmail, domain, ctx.userRole, ts)
        ELSE NULLV

\* a slip: an action the matrix does not list is denied to everyone
checkPermissionDenyUnlisted(ctx, ts) ==
  IF Falsy(ctx.action) THEN NULLV
  ELSE
    LET domain   == extractDomain(ctx.userEmail)
        listed   == ctx.action \in DOMAIN ACTION_MIN_ROLE
        required == IF listed THEN ACTION_MIN_ROLE[ctx.action] ELSE "superadmin"
    IN  IF ~listed \/ ~hasRole(ctx.userRole, required)
          THEN MkVerdict("BLOCK", "INSUFFICIENT_PERMISSIONS",
                         <<"Action requires role", ctx.action, required, ctx.userRole>>,
                         "medium", "blocked",
                         ctx.userEmail, domain, ctx.userRole, ts)
          ELSE NULLV

\* !ctx.action, then !required: an action the matrix does not list has no opinion
checkPermission(ctx, ts) ==
  IF Falsy(ctx.action) THEN NULLV
  ELSE IF ctx.action \notin DOMAIN ACTION_MIN_ROLE THEN NULLV
  ELSE
    LET domain   == extractDomain(ctx.userEmail)
        required == ACTION_MIN_ROLE[ctx.action]
    IN  IF ~hasRole(ctx.userRole, required)
          THEN MkVerdict("BLOCK", "INSUFFICIENT_PERMISSIONS",
                         <<"Action requires role", ctx.action, required, ctx.userRole>>,
                         "medium", "blocked",
                         ctx.userEmail, domain, ctx.userRole, ts)
          ELSE NULLV

\* -------------------------------------------------------------------------
\* Directory store reads (Prisma)
\* -------------------------------------------------------------------------

\* the result of a findUnique that finds no row
NotFound == [found |-> FALSE]

\* prisma.organization.findUnique({ where: { id } }) on the store orgTable
OrgFindUnique(orgTable, id) ==
  IF id \in DOMAIN orgTable THEN [found |-> TRUE, row |-> orgTable[id]] ELSE NotFound

\* prisma.session.findUnique({ where: { token } }); tokens are unique
SessionFindUnique(sessionTable, token) ==
  IF \E s \in sessionTable : s.token = token
    THEN [found |-> TRUE, row |-> CHOOSE s \in sessionTable : s.token = token]
    ELSE NotFound

\* prisma.session.findMany({ where: { userEmail, createdAt: { gte } } })
SessionFindMany(sessionTable, email, since) ==
  { s \in sessionTable : s.userEmail = email /\ s.createdAt >= since }

\* a slip: the stored domain is compared as it was typed
FindDomainRecordExact(domains, domain) ==
  LET idx == { i \in 1..Len(domains) : domains[i].domain = domain }
  IN  IF idx = {} THEN 0 ELSE CHOOSE i \in idx : \A j \in idx : i <= j

\* org.domains.find(d => d.domain.toLowerCase() === domain): its index, or 0
FindDomainRecord(domains, domain) ==
  LET idx == { i \in 1..Len(domains) : toLowerCase(domains[i].domain) = domain }
  IN  IF idx = {} THEN 0 ELSE CHOOSE i \in idx : \A j \in idx : i <= j

\* -------------------------------------------------------------------------
\* GuardService: the three checks that read the store, given what they read
\* -------------------------------------------------------------------------

\* a slip: the plan is read from the organization, not from the domain record
checkDomainAccessOrgPlan(ctx, orgRead, ts) ==
  IF ~orgRead.found THEN NULLV
  ELSE
    LET domain == extractDomain(ctx.userEmail)
        org    == orgRead.row
        rec    == FindDomainRecord(org.domains, domain)
    IN  IF rec = 0 /\ Len(org.domains) > 0
          THEN IF org.restrictSameDomain
                 THEN MkVerdict("BLOCK", "DOMAIN_MISMATCH",
                                <<"Email domain does not match org registered domains", domain>>,
                                "medium", "blocked",
                                ctx.userEmail, domain, ctx.userRole, ts)
                 ELSE MkVerdict("ESCALATE", "DOMAIN_UNKNOWN",
                                <<"Domain is not registered in the system", domain>>,
                                "medium", "flagged_for_review",
                                ctx.userEmail, domain, ctx.userRole, ts)
        ELSE IF rec # 0 /\ org.plan = "free_forever"
          THEN MkVerdict("ALLOW", "FREE_FOREVER_CONFIRMED",
                         <<"Domain has admin-granted free_forever access", domain>>,
                         "low", "logged",
                         ctx.userEmail, domain, ctx.userRole, ts)
        ELSE NULLV

\* a slip: an organization without domains counts every caller as unregistered
checkDomainAccessAnyOrg(ctx, orgRead, ts) ==
  IF ~orgRead.found THEN NULLV
  ELSE
    LET domain == extractDomain(ctx.userEmail)
        org    == orgRead.row
        rec    == FindDomainRecord(org.domains, domain)
    IN  IF rec = 0
          THEN IF org.restrictSameDomain
                 THEN MkVerdict("BLOCK", "DOMAIN_MISMATCH",
                                <<"Email domain does not match org registered domains", domain>>,
                                "medium", "blocked",
                                ctx.userEmail, domain, ctx.userRole, ts)
                 ELSE MkVerdict("ESCALATE", "DOMAIN_UNKNOWN",
                                <<"Domain is not registered in the system", domain>>,
                                "medium", "flagged_for_review",
                                ctx.userEmail, domain, ctx.userRole, ts)
        ELSE IF rec # 0 /\ org.domains[rec].plan = "free_forever"
          THEN MkVerdict("ALLOW", "FREE_FOREVER_CONFIRMED",
                         <<"Domain has admin-granted free_forever access", domain>>,
                         "low", "logged",
                         ctx.userEmail, domain, ctx.userRole, ts)
        ELSE NULLV

\* checkDomainAccess after its findUnique has resolved to orgRead
checkDomainAccess(ctx, orgRead, ts) ==
  IF ~orgRead.found THEN NULLV
  ELSE
    LET domain == extractDomain(ctx.userEmail)
        org    == orgRead.row
        rec    == FindDomainRecord(org.domains, domain)
    IN  IF rec = 0 /\ Len(org.domains) > 0
          THEN IF org.restrictSameDomain
                 THEN MkVerdict("BLOCK", "DOMAIN_MISMATCH",
                                <<"Email domain does not match org registered domains", domain>>,
                                "medium", "blocked",
                                ctx.userEmail, domain, ctx.userRole, ts)
                 ELSE MkVerdict("ESCALATE", "DOMAIN_UNKNOWN",
                                <<"Domain is not registered in the system", domain>>,
                                "medium", "flagged_for_review",
                                ctx.userEmail, domain, ctx.userRole, ts)
        ELSE IF rec # 0 /\ org.domains[rec].plan = "free_forever"
          THEN MkVerdict("ALLOW", "FREE_FOREVER_CONFIRMED",
                         <<"Domain has admin-granted free_forever access", domain>>,
                         "low", "logged",
                         ctx.userEmail, domain, ctx.userRole, ts)
        ELSE NULLV

\* PLAN_SEAT_LIMITS[plan] ?? 5
UnknownPlanCap == 5
SeatCapOf(plan) ==
  IF plan \in DOMAIN PLAN_SEAT_LIMITS THEN PLAN_SEAT_LIMITS[plan] ELSE UnknownPlanCap

\* a slip: the cap is exclusive, the organization may hold cap members and one more
checkSeatLimitExclusive(ctx, orgRead, ts) ==
  IF ~orgRead.found THEN NULLV
  ELSE
    LET domain == extractDomain(ctx.userEmail)
        org    == orgRead.row
        rec    == FindDomainRecord(org.domains, domain)
        plan   == IF org.plan = UNDEF THEN "free_trial" ELSE org.plan
        seatCap == SeatCapOf(plan)
        currentMembers == org.members
    IN  IF rec # 0 /\ org.domains[rec].plan = "free_forever" THEN NULLV
        ELSE IF currentMembers > seatCap
          THEN MkVerdict("BLOCK", "SEAT_LIMIT_REACHED",
                         <<"No seats available", currentMembers, seatCap, plan>>,
                         "low", "blocked",
                         ctx.userEmail, domain, ctx.userRole, ts)
        ELSE NULLV

\* checkSeatLimit after its findUnique has resolved to orgRead
checkSeatLimit(ctx, orgRead, ts) ==
  IF ~orgRead.found THEN NULLV
  ELSE
    LET domain == extractDomain(ctx.userEmail)
        org    == orgRead.row
        rec    == FindDomainRecord(org.domains, domain)
        plan   == IF org.plan = UNDEF THEN "free_trial" ELSE org.plan
        seatCap == SeatCapOf(plan)
        currentMembers == org.members
    IN  IF rec # 0 /\ org.domains[rec].plan = "free_forever" THEN NULLV
        ELSE IF currentMembers >= seatCap
          THEN MkVerdict("BLOCK", "SEAT_LIMIT_REACHED",
                         <<"No seats available", currentMembers, seatCap, plan>>,
                         "low", "blocked",
                         ctx.userEmail, domain, ctx.userRole, ts)
        ELSE NULLV

\* session.ttlSeconds ?? 3600
DefaultTtlSeconds == 3600
MsPerSecond == 1000
\* 10 * 60 * 1000
TenMinutesMs == 10 * 60 * 1000

\* an IP address is the sequence of its pieces between dots; <<>> is null/undefined
IpClass(ip) == ip[1]

\* a slip: the TTL is tested before the owner
checkSessionStepsExpiryFirst(ctx, sessionRead, nowMs) ==
  LET domain == extractDomain(ctx.userEmail)
  IN  IF ~sessionRead.found
        THEN MkVerdict("BLOCK", "SESSION_INVALID",
                       <<"Session token does not match any stored session">>,
                       "high", "session_terminated",
                       ctx.userEmail, domain, ctx.userRole, nowMs)
      ELSE
        LET session == sessionRead.row
            ttlMs   == (IF session.ttlSeconds.has THEN session.ttlSeconds.v
                        ELSE DefaultTtlSeconds) * MsPerSecond
        IN  IF nowMs - session.createdAt > ttlMs
              THEN MkVerdict("BLOCK", "SESSION_EXPIRED",
                             <<"Session exceeds TTL", session.createdAt, session.ttlSeconds>>,
                             "medium", "session_terminated",
                             ctx.userEmail, domain, ctx.userRole, nowMs)
            ELSE IF session.userEmail # ctx.userEmail
              THEN MkVerdict("BLOCK", "SESSION_INVALID",
                             <<"Session token does not match claimed user identity">>,
                             "critical", "session_terminated",
                             ctx.userEmail, domain, ctx.userRole, nowMs)
            ELSE IF ctx.sessionIp # <<>> /\ session.ipAddress # <<>>
                    /\ IpClass(session.ipAddress) # IpClass(ctx.sessionIp)
              THEN MkVerdict("ESCALATE", "SESSION_INVALID",
                             <<"Session IP class changed", IpClass(session.ipAddress),
                               IpClass(ctx.sessionIp)>>,
                             "high", "flagged_for_review",
                             ctx.userEmail, domain, ctx.userRole, nowMs)
            ELSE NULLV

\* a slip: a session whose age equals its TTL counts as expired
checkSessionStepsInclusive(ctx, sessionRead, nowMs) ==
  LET domain == extractDomain(ctx.userEmail)
  IN  IF ~sessionRead.found
        THEN MkVerdict("BLOCK", "SESSION_INVALID",
                       <<"Session token does not match any stored session">>,
                       "high", "session_terminated",
                       ctx.userEmail, domain, ctx.userRole, nowMs)
      ELSE
        LET session == sessionRead.row
            ttlMs   == (IF session.ttlSeconds.has THEN session.ttlSeconds.v
                        ELSE DefaultTtlSeconds) * MsPerSecond
        IN  IF session.userEmail # ctx.userEmail
              THEN MkVerdict("BLOCK", "SESSION_INVALID",
                             <<"Session token does not match claimed user identity">>,
                             "critical", "session_terminated",
                             ctx.userEmail, domain, ctx.userRole, nowMs)
            ELSE IF nowMs - session.createdAt >= ttlMs
              THEN MkVerdict("BLOCK", "SESSION_EXPIRED",
                             <<"Session exceeds TTL", session.createdAt, session.ttlSeconds>>,
                             "medium", "session_terminated",
                             ctx.userEmail, domain, ctx.userRole, nowMs)
            ELSE IF ctx.sessionIp # <<>> /\ session.ipAddress # <<>>
                    /\ IpClass(session.ipAddress) # IpClass(ctx.sessionIp)
              THEN MkVerdict("ESCALATE", "SESSION_INVALID",
                             <<"Session IP class changed", IpClass(session.ipAddress),
                               IpClass(ctx.sessionIp)>>,
                             "high", "flagged_for_review",
                             ctx.userEmail, domain, ctx.userRole, nowMs)
            ELSE NULLV

\* a slip: the whole addresses are compared, not their first octets
checkSessionStepsWholeIp(ctx, sessionRead, nowMs) ==
  LET domain == extractDomain(ctx.userEmail)
  IN  IF ~sessionRead.found
        THEN MkVerdict("BLOCK", "SESSION_INVALID",
                       <<"Session token does not match any stored session">>,
                       "high", "session_terminated",
                       ctx.userEmail, domain, ctx.userRole, nowMs)
      ELSE
        LET session == sessionRead.row
            ttlMs   == (IF session.ttlSeconds.has THEN session.ttlSeconds.v
                        ELSE DefaultTtlSeconds) * MsPerSecond
        IN  IF session.userEmail # ctx.userEmail
              THEN MkVerdict("BLOCK", "SESSION_INVALID",
                             <<"Session token does not match claimed user identity">>,
                             "critical", "session_terminated",
                             ctx.userEmail, domain, ctx.userRole, nowMs)
            ELSE IF nowMs - session.createdAt > ttlMs
              THEN MkVerdict("BLOCK", "SESSION_EXPIRED",
                             <<"Session exceeds TTL", session.createdAt, session.ttlSeconds>>,
                             "medium", "session_terminated",
                             ctx.userEmail, domain, ctx.userRole, nowMs)
            ELSE IF ctx.sessionIp # <<>> /\ session.ipAddress # <<>>
                    /\ session.ipAddress # ctx.sessionIp
              THEN MkVerdict("ESCALATE", "SESSION_INVALID",
                             <<"Session IP class changed", IpClass(session.ipAddress),
                               IpClass(ctx.sessionIp)>>,
                             "high", "flagged_for_review",
                             ctx.userEmail, domain, ctx.userRole, nowMs)
            ELSE NULLV

\* checkSessionIntegrity from its findUnique (sessionRead) up to the findMany:
\* the verdict of steps 1-4, or NULLV to go on to the multi-login read.
\* nowMs is Date.now() once the findUnique has resolved.
checkSessionSteps(ctx, sessionRead, nowMs) ==
  LET domain == extractDomain(ctx.userEmail)
  IN  IF ~sessionRead.found
        THEN MkVerdict("BLOCK", "SESSION_INVALID",
                       <<"Session token does not match any stored session">>,
                       "high", "session_terminated",
                       ctx.userEmail, domain, ctx.userRole, nowMs)
      ELSE
        LET session == sessionRead.row
            ttlMs   == (IF session.ttlSeconds.has THEN session.ttlSeconds.v
                        ELSE DefaultTtlSeconds) * MsPerSecond
        IN  IF session.userEmail # ctx.userEmail
              THEN MkVerdict("BLOCK", "SESSION_INVALID",
                             <<"Session token does not match claimed user identity">>,
                             "critical", "session_terminated",
                             ctx.userEmail, domain, ctx.userRole, nowMs)
            ELSE IF nowMs - session.createdAt > ttlMs
              THEN MkVerdict("BLOCK", "SESSION_EXPIRED",
                             <<"Session exceeds TTL", session.createdAt, session.ttlSeconds>>,
                             "medium", "session_terminated",
                             ctx.userEmail, domain, ctx.userRole, nowMs)
            ELSE IF ctx.sessionIp # <<>> /\ session.ipAddress # <<>>
                    /\ IpClass(session.ipAddress) # IpClass(ctx.sessionIp)
              THEN MkVerdict("ESCALATE", "SESSION_INVALID",
                             <<"Session IP class changed", IpClass(session.ipAddress),
                               IpClass(ctx.sessionIp)>>,
                             "high", "flagged_for_review",
                             ctx.userEmail, domain, ctx.userRole, nowMs)
            ELSE NULLV

\* how many distinct IPs make a multi-login
MultiLoginIps == 3

\* a slip: the recent sessions are counted, not their distinct addresses
checkMultiLoginSessions(ctx, recentSessions, ts) ==
  LET domain    == extractDomain(ctx.userEmail)
      uniqueIps == { s \in recentSessions : s.ipAddress # <<>> }
  IN  IF Cardinality(uniqueIps) >= MultiLoginIps
        THEN MkVerdict("ESCALATE", "SUSPICIOUS_MULTI_LOGIN",
                       <<"unique IPs detected in last 10 minutes", Cardinality(uniqueIps),
                         ctx.userEmail>>,
                       "high", "flagged_for_review",
                       ctx.userEmail, domain, ctx.userRole, ts)
        ELSE NULLV

\* checkSessionIntegrity after its findMany has resolved to recentSessions
checkMultiLogin(ctx, recentSessions, ts) ==
  LET domain    == extractDomain(ctx.userEmail)
      uniqueIps == { s.ipAddress : s \in recentSessions } \ {<<>>}
  IN  IF Cardinality(uniqueIps) >= MultiLoginIps
        THEN MkVerdict("ESCALATE", "SUSPICIOUS_MULTI_LOGIN",
                       <<"unique IPs detected in last 10 minutes", Cardinality(uniqueIps),
                         ctx.userEmail>>,
                       "high", "flagged_for_review",
                       ctx.userEmail, domain, ctx.userRole, ts)
        ELSE NULLV

\* -------------------------------------------------------------------------
\* State
\* -------------------------------------------------------------------------

VARIABLES
  caller,        \* who calls evaluate: "direct" or "middleware"
  opts,          \* the GuardMiddlewareOptions given to guardMiddleware()
  req,           \* the inbound HTTP request seen by the middleware
  ctx,           \* the GuardContext under evaluation
  orgTable,      \* Organization rows (with their domains and member count) by id
  sessionTable,  \* Session rows
  userTable,     \* User rows: id -> email
  now,           \* the clock, Date.now(), in milliseconds
  pc,            \* where evaluate is: "idle", a check's name, "done" or "threw"
  tenMinAgo,     \* the local of checkSessionIntegrity computed before its findMany
  result,        \* the verdict evaluate returned (NULLV before it returns)
  logWrites,     \* guardLog.create calls dispatched so far, each with its status
  guardLog,      \* the GuardLog table: rows in the order they were written
  consoleErrors, \* lines written with console.error
  outcomes,      \* history: the checks run in this evaluation and what each returned
  reads,         \* history: the store reads issued in this evaluation, by check
  evals,         \* history: a summary of every finished evaluation
  started,       \* history: store writes and ticks when the first evaluation began
  ticks,         \* clock ticks so far
  storeWrites,   \* writes to the directory store by other processes so far
  mwpc,          \* where the middleware is
  response,      \* the HTTP response sent by the middleware, if any
  nextCalls,     \* how many times the middleware called next()
  nextErrors,    \* how many times a route handler called next(err)
  eventQueue,    \* service worker: the detection events queued in memory
  storing,       \* service worker: handlers waiting for chrome.storage.local.set
  flights,       \* service worker: the batches (eventsToSend) being uploaded
  eventsSeen     \* service worker: DETECTION_EVENT messages received so far

\* the state of the extension's service worker
swVars == << eventQueue, storing, flights, eventsSeen >>

vars ==
  << caller, opts, req, ctx, orgTable, sessionTable, userTable, now, pc, tenMinAgo,
     result, logWrites, guardLog, consoleErrors, outcomes, reads, evals, started,
     ticks, storeWrites, mwpc, response, nextCalls, nextErrors, swVars >>

\* the state of the backend: everything but the service worker
guardVars ==
  << caller, opts, req, ctx, orgTable, sessionTable, userTable, now, pc, tenMinAgo,
     result, logWrites, guardLog, consoleErrors, outcomes, reads, evals, started,
     ticks, storeWrites, mwpc, response, nextCalls, nextErrors >>

storeVars == << orgTable, sessionTable, userTable >>
mwVars    == << caller, opts, req, mwpc, response, nextCalls, nextErrors >>

\* -------------------------------------------------------------------------
\* GuardService.evaluate and GuardService.logVerdict
\* -------------------------------------------------------------------------

\* a slip in the order: the content guard moved ahead of override detection
EvalOrderContentFirst == <<"content", "override", "role", "domain", "seat", "session">>

\* the order in which evaluate runs the six checks
EvalOrder == <<"override", "content", "role", "domain", "seat", "session">>

IndexOf(seq, x) == CHOOSE i \in 1..Len(seq) : seq[i] = x

\* a slip: a failed session check sends the evaluation back to the domain check
AfterCheckRetry(name) ==
  LET i == IndexOf(EvalOrder, name)
  IN  IF i < Len(EvalOrder) THEN EvalOrder[i + 1] ELSE "domain"

\* where evaluate goes after check name returned null: the next check, or the
\* final ALLOW when name was the last one
AfterCheck(name) ==
  LET i == IndexOf(EvalOrder, name)
  IN  IF i < Len(EvalOrder) THEN EvalOrder[i + 1] ELSE "allow"

\* a slip: only a BLOCK ends the evaluation
IsTerminalBlockOnly(r) == r # NULLV /\ r.verdict = "BLOCK"

\* `if (xResult)`: a check's result ends the evaluation when it is not null
IsTerminal(r) == r # NULLV

\* the data of the guardLog.create call logVerdict makes
LogData(verdict, c) ==
  [ verdict |-> verdict.verdict, reason |-> verdict.reason, detail |-> verdict.detail,
    riskLevel |-> verdict.risk_level, actionTaken |-> verdict.action_taken,
    userEmail |-> c.userEmail, userRole |-> c.userRole,
    orgId |-> c.orgId, action |-> c.action, ipAddress |-> c.sessionIp,
    payload |-> IF c.payload.has THEN Some(JSONStringify(c.payload.v)) ELSE None ]

\* a slip: only denials are logged
logVerdictDenialsOnly(writes, verdict, c) ==
  IF verdict.verdict = "ALLOW" THEN writes
  ELSE Append(writes, [data |-> LogData(verdict, c), status |-> "pending"])

\* logVerdict: dispatch one guardLog.create and do not wait for it
logVerdict(writes, verdict, c) ==
  Append(writes, [data |-> LogData(verdict, c), status |-> "pending"])

\* no store write since the first evaluation began
StoreQuiet == storeWrites = started.writes

\* no clock tick since the first evaluation began
ClockQuiet == ticks = started.ticks

\* the summary of the evaluation that is ending
Summary(outcome, r, outs, rds) ==
  [ outcome |-> outcome, result |-> r, outcomes |-> outs, reads |-> rds,
    storeQuiet |-> StoreQuiet, clockQuiet |-> ClockQuiet ]

\* evaluate logs the verdict r and returns it
Return(r, outs, rds) ==
  /\ logWrites' = logVerdict(logWrites, r, ctx)
  /\ result' = r
  /\ pc' = "done"
  /\ outcomes' = outs
  /\ reads' = rds
  /\ evals' = Append(evals, Summary("returned", r, outs, rds))

\* a slip: with no opinion from any check the request is queued for review
ContinueEscalate(name, r, rds) ==
  LET outs == Append(outcomes, [check |-> name, r |-> r])
  IN  IF IsTerminal(r) THEN Return(r, outs, rds)
      ELSE IF AfterCheck(name) = "allow"
        THEN Return(MkVerdict("ESCALATE", "OK", <<"All guard checks passed">>, "low",
                              "flagged_for_review", ctx.userEmail,
                              extractDomain(ctx.userEmail), ctx.userRole, now),
                    outs, rds)
      ELSE /\ pc' = AfterCheck(name)
           /\ outcomes' = outs
           /\ reads' = rds
           /\ UNCHANGED << result, logWrites, evals >>

\* after check name returned r: return it if it is terminal, else run the next
\* check; past the last check evaluate returns ALLOW/OK
Continue(name, r, rds) ==
  LET outs == Append(outcomes, [check |-> name, r |-> r])
  IN  IF IsTerminal(r) THEN Return(r, outs, rds)
      ELSE IF AfterCheck(name) = "allow"
        THEN Return(MkVerdict("ALLOW", "OK", <<"All guard checks passed">>, "low",
                              "logged", ctx.userEmail, extractDomain(ctx.userEmail),
                              ctx.userRole, now),
                    outs, rds)
      ELSE /\ pc' = AfterCheck(name)
           /\ outcomes' = outs
           /\ reads' = rds
           /\ UNCHANGED << result, logWrites, evals >>

EvalOverride ==
  /\ pc = "override"
  /\ Continue("override", checkOverrideAttempt(ctx, now), reads)
  /\ UNCHANGED << swVars, mwVars, ctx, storeVars, now, tenMinAgo, guardLog, consoleErrors,
                  started, ticks, storeWrites >>

\* a slip: the content patterns carry the g flag, so a pattern that matched
\* resumes after its match on the next call and misses every other time
EvalContentSticky ==
  /\ pc = "content"
  /\ Continue("content",
              IF Len(evals) % 2 = 1 THEN NULLV ELSE checkMaliciousInput(ctx, now),
              reads)
  /\ UNCHANGED << swVars, mwVars, ctx, storeVars, now, tenMinAgo, guardLog, consoleErrors,
                  started, ticks, storeWrites >>

EvalContent ==
  /\ pc = "content"
  /\ Continue("content", checkMaliciousInput(ctx, now), reads)
  /\ UNCHANGED << swVars, mwVars, ctx, storeVars, now, tenMinAgo, guardLog, consoleErrors,
                  started, ticks, storeWrites >>

EvalRole ==
  /\ pc = "role"
  /\ Continue("role", checkPermission(ctx, now), reads)
  /\ UNCHANGED << swVars, mwVars, ctx, storeVars, now, tenMinAgo, guardLog, consoleErrors,
                  started, ticks, storeWrites >>

\* checkDomainAccess: no read without an orgId
EvalDomain ==
  /\ pc = "domain"
  /\ IF Falsy(ctx.orgId)
       THEN Continue("domain", NULLV, reads)
       ELSE Continue("domain",
                     checkDomainAccess(ctx, OrgFindUnique(orgTable, ctx.orgId), now),
                     Append(reads, [check |-> "domain", read |-> "organization.findUnique"]))
  /\ UNCHANGED << swVars, mwVars, ctx, storeVars, now, tenMinAgo, guardLog, consoleErrors,
                  started, ticks, storeWrites >>

EvalSeat ==
  /\ pc = "seat"
  /\ IF Falsy(ctx.orgId)
       THEN Continue("seat", NULLV, reads)
       ELSE Continue("seat",
                     checkSeatLimit(ctx, OrgFindUnique(orgTable, ctx.orgId), now),
                     Append(reads, [check |-> "seat", read |-> "organization.findUnique"]))
  /\ UNCHANGED << swVars, mwVars, ctx, storeVars, now, tenMinAgo, guardLog, consoleErrors,
                  started, ticks, storeWrites >>

\* a slip: a session found expired is deleted on sight
EvalSessionPurge ==
  /\ pc = "session"
  /\ IF Falsy(ctx.sessionToken)
       THEN /\ Continue("session", NULLV, reads)
            /\ UNCHANGED << tenMinAgo, sessionTable >>
       ELSE LET r   == checkSessionSteps(ctx, SessionFindUnique(sessionTable, ctx.sessionToken), now)
                rds == Append(reads, [check |-> "session", read |-> "session.findUnique"])
            IN  IF r # NULLV
                  THEN /\ Continue("session", r, rds)
                       /\ sessionTable' =
                            IF r.reason = "SESSION_EXPIRED"
                              THEN { x \in sessionTable : x.token # ctx.sessionToken }
                              ELSE sessionTable
                       /\ UNCHANGED tenMinAgo
                  ELSE /\ pc' = "multilogin"
                       /\ tenMinAgo' = now - TenMinutesMs
                       /\ reads' = rds
                       /\ UNCHANGED << result, logWrites, evals, outcomes, sessionTable >>
  /\ UNCHANGED << swVars, mwVars, ctx, orgTable, userTable, now, guardLog, consoleErrors,
                  started, ticks, storeWrites >>

\* checkSessionIntegrity up to its second read: steps 1-4, then tenMinAgo
EvalSession ==
  /\ pc = "session"
  /\ IF Falsy(ctx.sessionToken)
       THEN /\ Continue("session", NULLV, reads)
            /\ UNCHANGED tenMinAgo
       ELSE LET r   == checkSessionSteps(ctx, SessionFindUnique(sessionTable, ctx.sessionToken), now)
                rds == Append(reads, [check |-> "session", read |-> "session.findUnique"])
            IN  IF r # NULLV
                  THEN /\ Continue("session", r, rds)
                       /\ UNCHANGED tenMinAgo
                  ELSE /\ pc' = "multilogin"
                       /\ tenMinAgo' = now - TenMinutesMs
                       /\ reads' = rds
                       /\ UNCHANGED << result, logWrites, evals, outcomes >>
  /\ UNCHANGED << swVars, mwVars, ctx, storeVars, now, guardLog, consoleErrors,
                  started, ticks, storeWrites >>

\* checkSessionIntegrity from its findMany on: step 5
EvalMultiLogin ==
  /\ pc = "multilogin"
  /\ Continue("session",
              checkMultiLogin(ctx, SessionFindMany(sessionTable, ctx.userEmail, tenMinAgo), now),
              Append(reads, [check |-> "session", read |-> "session.findMany"]))
  /\ UNCHANGED << swVars, mwVars, ctx, storeVars, now, tenMinAgo, guardLog, consoleErrors,
                  started, ticks, storeWrites >>

\* the check evaluate is in is about to read the store
AboutToRead ==
  \/ pc \in {"domain", "seat"} /\ ~Falsy(ctx.orgId)
  \/ pc = "session" /\ ~Falsy(ctx.sessionToken)
  \/ pc = "multilogin"

\* a slip: the rejection is caught and the check counts as having no opinion
ReadFailsSwallowed ==
  /\ AboutToRead
  /\ Continue(IF pc = "multilogin" THEN "session" ELSE pc, NULLV,
              Append(reads, [check |-> IF pc = "multilogin" THEN "session" ELSE pc,
                             read |-> "rejected"]))
  /\ UNCHANGED << swVars, mwVars, ctx, storeVars, now, tenMinAgo, guardLog, consoleErrors,
                  started, ticks, storeWrites >>

\* a store read rejects: the check rejects, and so does evaluate (nothing catches)
ReadFails ==
  /\ AboutToRead
  /\ pc' = "threw"
  /\ reads' = Append(reads, [check |-> IF pc = "multilogin" THEN "session" ELSE pc,
                             read |-> "rejected"])
  /\ evals' = Append(evals, Summary("threw", NULLV, outcomes, reads'))
  /\ UNCHANGED << swVars, mwVars, ctx, storeVars, now, tenMinAgo, result, logWrites, guardLog,
                  consoleErrors, outcomes, started, ticks, storeWrites >>

\* a dispatched guardLog.create resolves: the row is written
LogWriteSucceeds ==
  \E i \in 1..Len(logWrites) :
    /\ logWrites[i].status = "pending"
    /\ logWrites' = [logWrites EXCEPT ![i].status = "ok"]
    /\ guardLog' = Append(guardLog, logWrites[i].data)
    /\ UNCHANGED << swVars, mwVars, ctx, storeVars, now, pc, tenMinAgo, result, consoleErrors,
                    outcomes, reads, evals, started, ticks, storeWrites >>

\* a slip: the rejection is not caught and reaches the caller of evaluate
LogWriteFailsUncaught ==
  \E i \in 1..Len(logWrites) :
    /\ logWrites[i].status = "pending"
    /\ logWrites' = [logWrites EXCEPT ![i].status = "failed"]
    /\ pc' = "threw"
    /\ result' = NULLV
    /\ UNCHANGED << swVars, mwVars, ctx, storeVars, now, tenMinAgo, guardLog, consoleErrors,
                    outcomes, reads, evals, started, ticks, storeWrites >>

\* a dispatched guardLog.create rejects: logVerdict's .catch writes to the console
LogWriteFails ==
  \E i \in 1..Len(logWrites) :
    /\ logWrites[i].status = "pending"
    /\ logWrites' = [logWrites EXCEPT ![i].status = "failed"]
    /\ consoleErrors' = Append(consoleErrors, "[FYI Guard] Failed to log verdict")
    /\ UNCHANGED << swVars, mwVars, ctx, storeVars, now, pc, tenMinAgo, result, guardLog,
                    outcomes, reads, evals, started, ticks, storeWrites >>

\* a value that is not there
Undefined == [type |-> "undefined", v |-> <<>>]

\* req.body?.[field]
BodyField(body, field) == IF field \in DOMAIN body THEN body[field] ELSE Undefined

\* -------------------------------------------------------------------------
\* The environment: the clock and the other writers of the directory store
\* -------------------------------------------------------------------------

\* the clock advances by five minutes
TickMs == 5 * 60 * 1000

Tick ==
  /\ ticks < MaxTicks
  /\ now' = now + TickMs
  /\ ticks' = ticks + 1
  /\ UNCHANGED << swVars, mwVars, ctx, storeVars, pc, tenMinAgo, result, logWrites, guardLog,
                  consoleErrors, outcomes, reads, evals, started, storeWrites >>

\* only writes to the organization the request names are modelled: the rows of
\* other organizations are never read by the evaluation
Watched(id) ==
  IF caller = "direct" THEN id = ctx.orgId
  ELSE BodyField(req.body, "orgId") = [type |-> "string", v |-> <<id>>]

\* POST /organizations/:id/invite adds a member row
InviteMember ==
  \E id \in DOMAIN orgTable :
    /\ storeWrites < MaxStoreWrites
    /\ Watched(id)
    /\ orgTable' = [orgTable EXCEPT ![id].members = @ + 1]
    /\ storeWrites' = storeWrites + 1
    /\ UNCHANGED << swVars, mwVars, ctx, sessionTable, userTable, now, pc, tenMinAgo, result,
                    logWrites, guardLog, consoleErrors, outcomes, reads, evals, started,
                    ticks >>

\* DELETE /organizations/:id/members/:userId deletes a member row
RemoveMember ==
  \E id \in DOMAIN orgTable :
    /\ storeWrites < MaxStoreWrites
    /\ Watched(id)
    /\ orgTable[id].members > 0
    /\ orgTable' = [orgTable EXCEPT ![id].members = @ - 1]
    /\ storeWrites' = storeWrites + 1
    /\ UNCHANGED << swVars, mwVars, ctx, sessionTable, userTable, now, pc, tenMinAgo, result,
                    logWrites, guardLog, consoleErrors, outcomes, reads, evals, started,
                    ticks >>

\* the domains an admin may add
NewDomains == {"other.io"}

\* the plan of a domain row created without one
NewDomainPlan == "free_trial"

\* POST /organizations/:id/domains adds a domain row, stored as given
AddDomain ==
  \E id \in DOMAIN orgTable, d \in NewDomains :
    /\ storeWrites < MaxStoreWrites
    /\ Watched(id)
    /\ \A i \in 1..Len(orgTable[id].domains) : orgTable[id].domains[i].domain # d
    /\ orgTable' = [orgTable EXCEPT ![id].domains =
                      Append(@, [domain |-> d, plan |-> NewDomainPlan])]
    /\ storeWrites' = storeWrites + 1
    /\ UNCHANGED << swVars, mwVars, ctx, sessionTable, userTable, now, pc, tenMinAgo, result,
                    logWrites, guardLog, consoleErrors, outcomes, reads, evals, started,
                    ticks >>

\* -------------------------------------------------------------------------
\* Callers of evaluate
\* -------------------------------------------------------------------------

\* a caller invokes GuardService.evaluate(ctx)
BeginEvaluate ==
  /\ pc' = EvalOrder[1]
  /\ result' = NULLV
  /\ outcomes' = <<>>
  /\ reads' = <<>>
  /\ started' = IF evals = <<>> THEN [writes |-> storeWrites, ticks |-> ticks] ELSE started

\* a service calls evaluate with a context of its own
DirectCall ==
  /\ caller = "direct"
  /\ pc = "idle"
  /\ BeginEvaluate
  /\ UNCHANGED << swVars, mwVars, ctx, storeVars, now, tenMinAgo, logWrites, guardLog,
                  consoleErrors, evals, ticks, storeWrites >>

\* the service calls evaluate again with the same context
Reevaluate ==
  /\ caller = "direct"
  /\ pc \in {"done", "threw"}
  /\ Len(evals) < MaxEvals
  /\ BeginEvaluate
  /\ UNCHANGED << swVars, mwVars, ctx, storeVars, now, tenMinAgo, logWrites, guardLog,
                  consoleErrors, evals, ticks, storeWrites >>

\* -------------------------------------------------------------------------
\* guardMiddleware
\* -------------------------------------------------------------------------

\* booleans of an options object are the strings "true" and "false", so that a
\* property may also hold undefined
Truthy(x) == x \notin {UNDEF, "", "false"}

DEFAULT_OPTIONS ==
  [ skip |-> "false", fallbackAction |-> "BLOCK", promptField |-> "prompt",
    platformField |-> "platform", monitorOnly |-> "false" ]

\* { ...DEFAULT_OPTIONS, ...options }: every own property of options wins, also
\* one whose value is undefined
MergeOptions(options) ==
  [ k \in DOMAIN DEFAULT_OPTIONS |->
      IF k \in DOMAIN options THEN options[k] ELSE DEFAULT_OPTIONS[k] ]

\* !(!prompt || typeof prompt !== 'string'): a non-empty string
IsPrompt(x) == x.type = "string" /\ x.v # <<>>

\* req.headers[name], for a header whose value is one token
HeaderValue(headers, name) ==
  IF \E i \in 1..Len(headers) : headers[i][1] = name
    THEN (headers[CHOOSE i \in 1..Len(headers) : headers[i][1] = name][2])[1]
    ELSE UNDEF

toUserRole(role) ==
  IF role \in {"member", "org_admin", "superadmin"} THEN role
  ELSE CASE role = "MEMBER" -> "member"
         [] role = "ADMIN"  -> "org_admin"
         [] OTHER           -> "member"

Anonymous == <<"anonymous">>

\* resolveUserEmail when its findUnique resolves
resolveUserEmail(users, userId) ==
  IF Falsy(userId) THEN Anonymous
  ELSE IF userId \in DOMAIN users /\ users[userId] # <<>> THEN users[userId]
  ELSE Anonymous

SessionTokenHeader == <<"x", "-", "session", "-", "token">>

\* the GuardContext the middleware builds
MwContext(userEmail) ==
  LET config == MergeOptions(opts)
      orgId  == BodyField(req.body, "orgId")
  IN  [ userEmail |-> userEmail,
        userRole |-> toUserRole(req.userRole),
        orgId |-> IF orgId.type = "string" /\ orgId.v # <<>> THEN orgId.v[1] ELSE UNDEF,
        action |-> UNDEF,
        payload |-> None,
        sessionToken |-> HeaderValue(req.headers, SessionTokenHeader),
        sessionIp |-> req.ip,
        textInputs |-> Some(<<BodyField(req.body, config.promptField).v>>),
        headers |-> Some(req.headers) ]

\* next()
CallNext == nextCalls' = nextCalls + 1

\* res.status(code).json(body)
Send(code, body) ==
  response' = [response EXCEPT !.sent = Append(@, [status |-> code, body |-> body])]

\* steps 1 and 2: skip, and requests without a prompt, go straight to next()
MwEnter ==
  /\ caller = "middleware"
  /\ mwpc = "enter"
  /\ LET config == MergeOptions(opts)
     IN  IF Truthy(config.skip) \/ ~IsPrompt(BodyField(req.body, config.promptField))
           THEN CallNext /\ mwpc' = "finished"
           ELSE mwpc' = "resolve" /\ UNCHANGED nextCalls
  /\ UNCHANGED << swVars, nextErrors, caller, opts, req, response, ctx, storeVars, now, pc, tenMinAgo,
                  result, logWrites, guardLog, consoleErrors, outcomes, reads, evals,
                  started, ticks, storeWrites >>

\* step 3 and the call of step 4: the context is built and evaluate is called
MwCallEvaluate(userEmail) ==
  /\ ctx' = MwContext(userEmail)
  /\ BeginEvaluate
  /\ mwpc' = "evaluating"
  /\ UNCHANGED << swVars, nextErrors, caller, opts, req, response, nextCalls, storeVars, now, tenMinAgo,
                  logWrites, guardLog, consoleErrors, evals, ticks, storeWrites >>

MwResolveEmail ==
  /\ caller = "middleware"
  /\ mwpc = "resolve"
  /\ MwCallEvaluate(resolveUserEmail(userTable, req.userId))

\* the user lookup rejects: resolveUserEmail catches and answers 'anonymous'
MwResolveEmailFails ==
  /\ caller = "middleware"
  /\ mwpc = "resolve"
  /\ ~Falsy(req.userId)
  /\ MwCallEvaluate(Anonymous)

\* a slip: every verdict but ALLOW is rejected
MwVerdictStrict ==
  /\ caller = "middleware"
  /\ mwpc = "evaluating"
  /\ pc = "done"
  /\ IF result.verdict # "ALLOW" /\ ~Truthy(MergeOptions(opts).monitorOnly)
       THEN /\ Send(403, [error |-> "Prompt blocked by security policy",
                          reason |-> result.reason, detail |-> result.detail,
                          risk_level |-> result.risk_level])
            /\ UNCHANGED nextCalls
       ELSE CallNext /\ UNCHANGED response
  /\ mwpc' = "finished"
  /\ UNCHANGED << swVars, nextErrors, caller, opts, req, ctx, storeVars, now, pc, tenMinAgo,
                  result, logWrites, guardLog, consoleErrors, outcomes, reads, evals,
                  started, ticks, storeWrites >>

\* step 5: the verdict is handled
MwVerdict ==
  /\ caller = "middleware"
  /\ mwpc = "evaluating"
  /\ pc = "done"
  /\ LET config == MergeOptions(opts)
     IN  IF result.verdict = "BLOCK" /\ ~Truthy(config.monitorOnly)
           THEN /\ Send(403, [error |-> "Prompt blocked by security policy",
                              reason |-> result.reason, detail |-> result.detail,
                              risk_level |-> result.risk_level])
                /\ UNCHANGED nextCalls
           ELSE /\ response' =
                     IF result.verdict = "ESCALATE"
                       THEN [response EXCEPT !.headers =
                               [escalated |-> "true", reason |-> result.reason,
                                risk_level |-> result.risk_level]]
                       ELSE response
                /\ CallNext
  /\ mwpc' = "finished"
  /\ UNCHANGED << swVars, nextErrors, caller, opts, req, ctx, storeVars, now, pc, tenMinAgo, result,
                  logWrites, guardLog, consoleErrors, outcomes, reads, evals, started,
                  ticks, storeWrites >>

\* step 6, first half: evaluate rejected; the failure is logged and awaited
MwCatch ==
  /\ caller = "middleware"
  /\ mwpc = "evaluating"
  /\ pc = "threw"
  /\ consoleErrors' = Append(consoleErrors, "[GuardMiddleware] Evaluation failed")
  /\ mwpc' = "failurelog"
  /\ UNCHANGED << swVars, nextErrors, caller, opts, req, response, nextCalls, ctx, storeVars, now, pc,
                  tenMinAgo, result, logWrites, guardLog, outcomes, reads, evals,
                  started, ticks, storeWrites >>

\* the row logGuardFailure writes
FailureRow ==
  [ verdict |-> "ERROR", reason |-> "error.message", detail |-> <<"prompt.substring(0, 200)">>,
    riskLevel |-> "CRITICAL", actionTaken |-> "ERROR", userEmail |-> ctx.userEmail,
    userRole |-> "member", orgId |-> UNDEF, action |-> "ERROR", ipAddress |-> <<>>,
    payload |-> None ]

\* a slip: the return after the 503 is missing, so next() is called as well
FallbackNoReturn ==
  IF MergeOptions(opts).fallbackAction = "BLOCK"
    THEN /\ Send(503, [error |-> "Security evaluation unavailable. Request blocked.",
                       code |-> "GUARD_UNAVAILABLE"])
         /\ CallNext
    ELSE CallNext /\ UNCHANGED response

\* step 6, second half: fail closed with a 503 when fallbackAction is 'BLOCK',
\* else warn and call next()
Fallback ==
  IF MergeOptions(opts).fallbackAction = "BLOCK"
    THEN /\ Send(503, [error |-> "Security evaluation unavailable. Request blocked.",
                       code |-> "GUARD_UNAVAILABLE"])
         /\ UNCHANGED nextCalls
    ELSE CallNext /\ UNCHANGED response

\* logGuardFailure's write resolved
MwFailureLogged ==
  /\ caller = "middleware"
  /\ mwpc = "failurelog"
  /\ guardLog' = Append(guardLog, FailureRow)
  /\ Fallback
  /\ mwpc' = "finished"
  /\ UNCHANGED << swVars, nextErrors, caller, opts, req, ctx, storeVars, now, pc, tenMinAgo, result,
                  logWrites, consoleErrors, outcomes, reads, evals, started, ticks,
                  storeWrites >>

\* logGuardFailure's write rejected: it is caught and written to the console
MwFailureLogFails ==
  /\ caller = "middleware"
  /\ mwpc = "failurelog"
  /\ consoleErrors' = Append(consoleErrors, "[GuardMiddleware] Failed to log guard failure")
  /\ Fallback
  /\ mwpc' = "finished"
  /\ UNCHANGED << swVars, nextErrors, caller, opts, req, ctx, storeVars, now, pc, tenMinAgo, result,
                  logWrites, guardLog, outcomes, reads, evals, started, ticks,
                  storeWrites >>

\* -------------------------------------------------------------------------
\* The guard routes: POST /evaluate and POST /check-input
\* -------------------------------------------------------------------------

\* z.string().email(), for an address given as its pieces between '@' signs
IsEmail(e) == Len(e) = 2 /\ e[1] # "" /\ e[2] # ""

\* evaluateSchema.parse(req.body) does not throw
evaluateSchemaOk(body) ==
  /\ IsEmail(body.userEmail)
  /\ body.userRole \in UserRoles
  /\ body.action = UNDEF \/ body.action \in GuardActions

\* inputSchema.parse(req.body) does not throw
inputSchemaOk(body) ==
  /\ IsEmail(body.userEmail)
  /\ body.textInputs.has
  /\ Len(body.textInputs.v) >= 1

\* the GuardContext POST /evaluate builds from the parsed body
EvaluateRouteContext ==
  [ userEmail |-> req.body.userEmail, userRole |-> req.body.userRole,
    orgId |-> req.body.orgId, action |-> req.body.action, payload |-> req.body.payload,
    sessionToken |-> req.body.sessionToken,
    sessionIp |-> IF req.body.sessionIp # <<>> THEN req.body.sessionIp ELSE req.ip,
    textInputs |-> req.body.textInputs, headers |-> req.body.headers ]

\* the GuardContext POST /check-input builds from the parsed body
CheckInputContext ==
  [ userEmail |-> req.body.userEmail, userRole |-> "member", orgId |-> UNDEF,
    action |-> UNDEF, payload |-> None, sessionToken |-> UNDEF, sessionIp |-> <<>>,
    textInputs |-> req.body.textInputs, headers |-> req.body.headers ]

\* next(err)
CallNextErr == nextErrors' = nextErrors + 1

\* the body /check-input sends for a denial
GenericBody(v, message) ==
  [ verdict |-> v.verdict, reason |-> v.reason, message |-> message,
    risk_level |-> v.risk_level ]

\* the body /evaluate sends for a denial and for an escalation
EvaluateBody(v, message) ==
  [ verdict |-> v.verdict, reason |-> v.reason, message |-> message,
    risk_level |-> v.risk_level, timestamp |-> v.timestamp ]

AccessDenied == "Access denied. Contact your administrator."

\* POST /evaluate: the body is parsed and evaluate is called
RouteEvaluateEnter ==
  /\ caller = "evaluate"
  /\ mwpc = "enter"
  /\ IF evaluateSchemaOk(req.body)
       THEN /\ ctx' = EvaluateRouteContext
            /\ BeginEvaluate
            /\ mwpc' = "evaluating"
            /\ UNCHANGED nextErrors
       ELSE /\ CallNextErr
            /\ mwpc' = "finished"
            /\ UNCHANGED << ctx, pc, result, outcomes, reads, started >>
  /\ UNCHANGED << swVars, caller, opts, req, response, nextCalls, storeVars, now,
                  tenMinAgo, logWrites, guardLog, consoleErrors, evals, ticks,
                  storeWrites >>

\* POST /evaluate: the verdict is answered
RouteEvaluateVerdict ==
  /\ caller = "evaluate"
  /\ mwpc = "evaluating"
  /\ pc = "done"
  /\ IF result.verdict = "BLOCK"
       THEN Send(403, EvaluateBody(result, AccessDenied))
       ELSE IF result.verdict = "ESCALATE"
         THEN Send(202, EvaluateBody(result, "Request is pending admin review."))
         ELSE Send(200, result)
  /\ mwpc' = "finished"
  /\ UNCHANGED << swVars, nextErrors, caller, opts, req, nextCalls, ctx, storeVars, now,
                  pc, tenMinAgo, result, logWrites, guardLog, consoleErrors, outcomes,
                  reads, evals, started, ticks, storeWrites >>

\* POST /evaluate: evaluate rejected; the error goes to next(err)
RouteEvaluateCatch ==
  /\ caller = "evaluate"
  /\ mwpc = "evaluating"
  /\ pc = "threw"
  /\ CallNextErr
  /\ mwpc' = "finished"
  /\ UNCHANGED << swVars, caller, opts, req, response, nextCalls, ctx, storeVars, now,
                  pc, tenMinAgo, result, logWrites, guardLog, consoleErrors, outcomes,
                  reads, evals, started, ticks, storeWrites >>

\* a slip: the fast path scans the content before the override signatures
CheckInputVerdictContentFirst(c, ts) ==
  IF checkMaliciousInput(c, ts) # NULLV THEN checkMaliciousInput(c, ts)
  ELSE checkOverrideAttempt(c, ts)

\* the result of the two checks POST /check-input runs, or NULLV
CheckInputVerdict(c, ts) ==
  IF checkOverrideAttempt(c, ts) # NULLV THEN checkOverrideAttempt(c, ts)
  ELSE checkMaliciousInput(c, ts)

\* POST /check-input: one synchronous pass, which never calls evaluate
RouteCheckInput ==
  /\ caller = "check-input"
  /\ mwpc = "enter"
  /\ IF inputSchemaOk(req.body)
       THEN /\ ctx' = CheckInputContext
            /\ LET r == CheckInputVerdict(CheckInputContext, now)
               IN  IF r # NULLV
                     THEN Send(403, GenericBody(r, AccessDenied))
                     ELSE Send(200, [verdict |-> "ALLOW", reason |-> "OK",
                                     message |-> "Input is clean.", risk_level |-> "low"])
            /\ UNCHANGED nextErrors
       ELSE /\ CallNextErr
            /\ UNCHANGED << ctx, response >>
  /\ mwpc' = "finished"
  /\ UNCHANGED << swVars, caller, opts, req, nextCalls, storeVars, now, pc, tenMinAgo,
                  result, logWrites, guardLog, consoleErrors, outcomes, reads, evals,
                  started, ticks, storeWrites >>

\* the client that pre-scanned a body with /check-input posts it to /evaluate
RoutePostToEvaluate ==
  /\ caller = "check-input"
  /\ mwpc = "finished"
  /\ caller' = "evaluate"
  /\ mwpc' = "enter"
  /\ UNCHANGED << swVars, nextErrors, opts, req, response, nextCalls, ctx, storeVars, now,
                  pc, tenMinAgo, result, logWrites, guardLog, consoleErrors, outcomes,
                  reads, evals, started, ticks, storeWrites >>

\* -------------------------------------------------------------------------
\* The extension's service worker: the detection event queue
\* -------------------------------------------------------------------------

\* Maximum events to batch before forcing a flush
MAX_QUEUE_SIZE == 50

\* arr.slice(0, n)
Slice(arr, n) == SubSeq(arr, 1, IF Len(arr) < n THEN Len(arr) ELSE n)

\* the sequence without its i-th element
RemoveAt(seq, i) == SubSeq(seq, 1, i - 1) \o SubSeq(seq, i + 1, Len(seq))

\* [...eventsToSend.slice(0, MAX), ...this.eventQueue].slice(0, MAX)
Requeue(eventsToSend, queue) ==
  Slice(Slice(eventsToSend, MAX_QUEUE_SIZE) \o queue, MAX_QUEUE_SIZE)

\* flushEvents up to its fetch: nothing when the queue is empty, else the
\* queue is taken as the batch to send and emptied
BeginFlush ==
  IF eventQueue = <<>> THEN UNCHANGED << eventQueue, flights >>
  ELSE /\ flights' = Append(flights, eventQueue)
       /\ eventQueue' = <<>>

\* the detection events a content script may report; the service worker never
\* looks into them
EventChoices == {"pii"}

\* a DETECTION_EVENT message: handleDetectionEvent pushes the event and waits
\* for chrome.storage.local.set
DetectionEvent ==
  \E event \in EventChoices :
    /\ eventsSeen < MaxDetectionEvents
    /\ storing < MaxStoring
    /\ eventsSeen' = eventsSeen + 1
    /\ eventQueue' = Append(eventQueue, event)
    /\ storing' = storing + 1
    /\ UNCHANGED << flights, guardVars >>

\* the storage write resolves: handleDetectionEvent flushes when the queue has
\* reached MAX_QUEUE_SIZE
StorageSetResolves ==
  /\ storing > 0
  /\ storing' = storing - 1
  /\ IF Len(eventQueue) >= MAX_QUEUE_SIZE
       THEN Len(flights) < MaxFlights /\ BeginFlush
       ELSE UNCHANGED << eventQueue, flights >>
  /\ UNCHANGED << eventsSeen, guardVars >>

\* the storage write rejects: handleDetectionEvent rejects before its size test
StorageSetRejects ==
  /\ storing > 0
  /\ storing' = storing - 1
  /\ UNCHANGED << eventQueue, flights, eventsSeen, guardVars >>

\* the upload-events alarm fires: flushEvents
AlarmFlush ==
  /\ eventQueue # <<>>
  /\ Len(flights) < MaxFlights
  /\ BeginFlush
  /\ UNCHANGED << storing, eventsSeen, guardVars >>

\* the upload is answered with an ok status: the batch is gone
UploadSucceeds ==
  \E i \in 1..Len(flights) :
    /\ flights' = RemoveAt(flights, i)
    /\ UNCHANGED << eventQueue, storing, eventsSeen, guardVars >>

\* the upload is answered with a failure status: the batch is re-queued
UploadRejected ==
  \E i \in 1..Len(flights) :
    /\ flights' = RemoveAt(flights, i)
    /\ eventQueue' = Requeue(flights[i], eventQueue)
    /\ UNCHANGED << storing, eventsSeen, guardVars >>

\* the backend is unreachable (fetch throws): the batch is re-queued
UploadUnreachable ==
  \E i \in 1..Len(flights) :
    /\ flights' = RemoveAt(flights, i)
    /\ eventQueue' = Requeue(flights[i], eventQueue)
    /\ UNCHANGED << storing, eventsSeen, guardVars >>

\* -------------------------------------------------------------------------
\* Inputs: contexts, store contents and requests the runs start from
\* -------------------------------------------------------------------------

Alice      == <<"alice", "acme.com">>
AliceUpper == <<"alice", "ACME.COM">>
Bob        == <<"bob", "other.io">>

Benign == <<"hello", " ", "world">>
\* an override signature only
Bypass == <<"BYPASS", " ", "=", " ", "TRUE">>
\* a malicious input only
Inject == <<"Ignore", " ", "previous", " ", "instructions">>
\* both an override signature and a malicious input
RoleEq == <<"role", "=", "SuperAdmin">>

TextInputChoices ==
  { None, Some(<<>>), Some(<<Benign>>), Some(<<Bypass>>), Some(<<Inject>>),
    Some(<<Inject, Bypass>>), Some(<<RoleEq>>) }

PayloadChoices ==
  { None,
    Some(<< << <<"role">>, <<"superadmin">> >> >>),
    Some(<< << <<"note">>, <<"ok">> >>, << <<"flag">>, <<"grant_all">> >> >>) }

BenignHeaders   == << << <<"accept">>, <<"json">> >> >>
OverrideHeaders == << << <<"accept">>, <<"json">> >>, << <<"x", "-", "role">>, <<"superadmin">> >> >>

HeaderChoices == { None, Some(BenignHeaders), Some(OverrideHeaders) }

\* the clock when a run starts: two hours after the epoch of the model
StartMs == 2 * 60 * 60 * 1000

Ip10    == <<"10", "0", "0", "1">>
Ip10b   == <<"10", "0", "0", "9">>
Ip192   == <<"192", "168", "0", "1">>
Ip172   == <<"172", "16", "0", "1">>

OrgRow(plan, restrict, domains, members) ==
  [ plan |-> plan, restrictSameDomain |-> restrict, domains |-> domains,
    members |-> members ]

OneOrg(row) == [ id \in {"org1"} |-> row ]

AcmePro      == << [domain |-> "acme.com", plan |-> "pro"] >>
AcmeForever  == << [domain |-> "Acme.com", plan |-> "free_forever"] >>
PartnerFirst == << [domain |-> "partner.net", plan |-> "pro"],
                   [domain |-> "acme.com", plan |-> "free_forever"] >>
\* two rows for one domain, in different spellings; the paid one comes first
Shadowed     == << [domain |-> "acme.com", plan |-> "pro"],
                   [domain |-> "Acme.com", plan |-> "free_forever"] >>

DefaultOrgs == OneOrg(OrgRow("pro", TRUE, AcmePro, 3))

SessionRow(token, email, ip, createdAt, ttl) ==
  [ token |-> token, userEmail |-> email, ipAddress |-> ip, createdAt |-> createdAt,
    ttlSeconds |-> ttl ]

\* Alice's session tok1, one minute old
DefaultSessions == { SessionRow("tok1", Alice, Ip10, StartMs - 60000, Some(3600)) }

\* other sessions of Alice: none; two more IPs, one of them exactly ten minutes old
OtherSessionChoices ==
  { {},
    { SessionRow("tok2", Alice, Ip192, StartMs - 60000, Some(3600)),
      SessionRow("tok3", Alice, Ip172, StartMs - TenMinutesMs, Some(3600)) },
    { SessionRow("tok2", Alice, Ip192, StartMs - 60000, Some(3600)),
      SessionRow("tok3", Alice, <<>>, StartMs - 60000, Some(3600)) } }

DefaultUsers == [ id \in {"u1", "u2"} |-> IF id = "u1" THEN Alice ELSE Bob ]

BaseCtx ==
  [ userEmail |-> Alice, userRole |-> "member", orgId |-> UNDEF, action |-> UNDEF,
    payload |-> None, sessionToken |-> UNDEF, sessionIp |-> <<>>,
    textInputs |-> None, headers |-> None ]

Scenario(c, orgs, sessions) == [ctx |-> c, orgs |-> orgs, sessions |-> sessions]

\* every textual surface, alone and together
SurfaceScenarios ==
  { Scenario([BaseCtx EXCEPT !.textInputs = t, !.payload = p, !.headers = h],
             DefaultOrgs, DefaultSessions) :
      t \in TextInputChoices, p \in PayloadChoices, h \in HeaderChoices }

\* contexts in which several checks have an opinion at once
OrderingScenarios ==
  { Scenario([BaseCtx EXCEPT !.userEmail = e, !.textInputs = Some(<<t>>), !.action = a,
                             !.orgId = o, !.sessionToken = k],
             DefaultOrgs, DefaultSessions) :
      e \in {Alice, Bob}, t \in {Benign, Bypass, Inject, RoleEq},
      a \in {UNDEF, "promote_to_org_admin"},
      o \in {UNDEF, "org1"}, k \in {UNDEF, "nosuch"} }

\* every role with every action, with no action and with an action outside the catalog
RoleScenarios ==
  { Scenario([BaseCtx EXCEPT !.userRole = r, !.action = a], DefaultOrgs, DefaultSessions) :
      r \in UserRoles, a \in GuardActions \cup {UNDEF, "", "export_data"} }

OrgChoices ==
  { OneOrg(OrgRow(plan, TRUE, AcmePro, m)) :
      plan \in {"free_trial", "pro", "enterprise", "free_forever", UNDEF, "legacy"},
      m \in {4, 5, 25} }
  \cup
  { OneOrg(OrgRow("pro", restrict, domains, m)) :
      restrict \in BOOLEAN,
      domains \in {<<>>, AcmePro, AcmeForever, PartnerFirst, Shadowed},
      m \in {3, 26} }

\* organizations, domains and seats
OrgScenarios ==
  { Scenario([BaseCtx EXCEPT !.userEmail = e, !.orgId = "org1"], orgs, DefaultSessions) :
      e \in {Alice, AliceUpper, Bob, Anonymous}, orgs \in OrgChoices }
  \cup
  { Scenario([BaseCtx EXCEPT !.orgId = o, !.textInputs = t, !.action = a],
             OneOrg(OrgRow("pro", TRUE, AcmeForever, 26)), DefaultSessions) :
      o \in {"org1", "ghost", ""}, t \in {None, Some(<<Inject>>)},
      a \in {UNDEF, "delete_any_user"} }

\* the session tok1 in its variants
Tok1Choices ==
  { SessionRow("tok1", Alice, ip, StartMs - age, ttl) :
      ip \in {Ip10, <<>>}, age \in {60000, 3600000, 3900000},
      ttl \in {None, Some(3600), Some(0)} }

\* sessions
SessionScenarios ==
  { Scenario([BaseCtx EXCEPT !.userEmail = e, !.sessionToken = k, !.sessionIp = ip],
             DefaultOrgs, DefaultSessions) :
      e \in {Alice, AliceUpper}, k \in {"tok1", "nosuch", ""}, ip \in {<<>>, Ip10b, Ip192} }
  \cup
  { Scenario([BaseCtx EXCEPT !.sessionToken = "tok1", !.sessionIp = Ip10b],
             DefaultOrgs, {s} \cup others) :
      s \in Tok1Choices, others \in OtherSessionChoices }

\* recent sessions of an email besides tok1: none; three from three networks;
\* three from one network
CrowdChoices(email) ==
  { {},
    { SessionRow("tok4", email, Ip192, StartMs - 60000, Some(3600)),
      SessionRow("tok5", email, Ip172, StartMs - 60000, Some(3600)),
      SessionRow("tok6", email, Ip10b, StartMs - 60000, Some(3600)) },
    { SessionRow("tok4", email, Ip192, StartMs - 60000, Some(3600)),
      SessionRow("tok5", email, Ip192, StartMs - 120000, Some(3600)),
      SessionRow("tok6", email, Ip192, StartMs - 180000, Some(3600)) } }

\* Alice's session tok1 presented by Alice and by Bob, fresh, at its TTL and
\* past it, from every network, with and without a crowd of recent sessions
SessionStepScenariosOf(e) ==
  { Scenario([BaseCtx EXCEPT !.userEmail = e, !.sessionToken = "tok1", !.sessionIp = ip],
             DefaultOrgs,
             {SessionRow("tok1", Alice, sip, StartMs - age, Some(3600))} \cup others) :
      ip \in {<<>>, Ip10b, Ip192}, sip \in {Ip10, <<>>},
      age \in {60000, 3600000, 3900000}, others \in CrowdChoices(e) }

SessionStepScenarios == SessionStepScenariosOf(Alice) \cup SessionStepScenariosOf(Bob)

DirectScenarios ==
  SurfaceScenarios \cup OrderingScenarios \cup RoleScenarios \cup OrgScenarios
    \cup SessionScenarios \cup SessionStepScenarios

NoRequest ==
  [ body |-> [f \in {} |-> Undefined], headers |-> <<>>, userId |-> UNDEF,
    userRole |-> UNDEF, ip |-> <<>> ]

NoOptions == [k \in {} |-> ""]

NoResponse == [sent |-> <<>>, headers |-> [escalated |-> "", reason |-> "", risk_level |-> ""]]

InitCommon ==
  /\ userTable = DefaultUsers
  /\ now = StartMs
  /\ pc = "idle"
  /\ tenMinAgo = 0
  /\ result = NULLV
  /\ logWrites = <<>>
  /\ guardLog = <<>>
  /\ consoleErrors = <<>>
  /\ outcomes = <<>>
  /\ reads = <<>>
  /\ evals = <<>>
  /\ started = [writes |-> 0, ticks |-> 0]
  /\ ticks = 0
  /\ storeWrites = 0
  /\ response = NoResponse
  /\ nextCalls = 0
  /\ nextErrors = 0
  /\ eventQueue = <<>>
  /\ storing = 0
  /\ flights = <<>>
  /\ eventsSeen = 0

DirectInit(scenarios) ==
  /\ InitCommon
  /\ caller = "direct"
  /\ opts = NoOptions
  /\ req = NoRequest
  /\ mwpc = "off"
  /\ \E sc \in scenarios :
       /\ ctx = sc.ctx
       /\ orgTable = sc.orgs
       /\ sessionTable = sc.sessions

EngineStep ==
  \/ EvalOverride
  \/ EvalContent
  \/ EvalRole
  \/ EvalDomain
  \/ EvalSeat
  \/ EvalSession
  \/ EvalMultiLogin

LogSink ==
  \/ LogWriteSucceeds
  \/ LogWriteFails

\* a service evaluates one context against a store nobody writes
Init == DirectInit(DirectScenarios)

Next ==
  \/ DirectCall
  \/ EngineStep
  \/ ReadFails
  \/ LogSink

Spec == Init /\ [][Next]_vars

\* contexts whose verdict depends on the clock or on rows other processes
\* write, and two whose verdict depends on neither
RepeatScenarios ==
  { Scenario([BaseCtx EXCEPT !.userEmail = e, !.orgId = "org1"], orgs, DefaultSessions) :
      e \in {Alice, Bob},
      orgs \in { OneOrg(OrgRow("free_trial", TRUE, AcmePro, 4)),
                 OneOrg(OrgRow("free_trial", TRUE, AcmePro, 5)),
                 OneOrg(OrgRow("pro", FALSE, <<>>, 25)),
                 OneOrg(OrgRow("pro", FALSE, AcmeForever, 26)) } }
  \cup
  { Scenario([BaseCtx EXCEPT !.sessionToken = "tok1", !.sessionIp = Ip10b],
             DefaultOrgs, {s} \cup others) :
      s \in { t \in Tok1Choices : /\ t.ipAddress = Ip10
                                  /\ t.ttlSeconds # Some(0)
                                  /\ t.createdAt >= StartMs - 3600000 },
      others \in OtherSessionChoices }
  \cup
  { Scenario([BaseCtx EXCEPT !.textInputs = Some(<<t>>)], DefaultOrgs, DefaultSessions) :
      t \in {Benign, Inject} }

\* a service evaluates one context, and again, while the clock runs and other
\* processes write the store
RepeatInit == DirectInit(RepeatScenarios)

Environment ==
  \/ Tick
  \/ InviteMember
  \/ RemoveMember
  \/ AddDomain

RepeatNext ==
  \/ Next
  \/ Reevaluate
  \/ Environment

RepeatSpec == RepeatInit /\ [][RepeatNext]_vars

\* -------------------------------------------------------------------------
\* The middleware in front of a route
\* -------------------------------------------------------------------------

\* the values a caller of guardMiddleware may give each option; a property may
\* also be left out
OptionValues ==
  [ skip |-> {"true", "false"}, fallbackAction |-> {"ALLOW", "BLOCK", UNDEF},
    monitorOnly |-> {"true"}, promptField |-> {"message"} ]

OptionChoices ==
  { o \in UNION { [D -> UNION { OptionValues[k] : k \in DOMAIN OptionValues }] :
                    D \in SUBSET DOMAIN OptionValues } :
      \A k \in DOMAIN o : o[k] \in OptionValues[k] }

Str(tokens) == [type |-> "string", v |-> tokens]

Body1(f, x) == [k \in {f} |-> x]
Body2(f, x, g, y) == [k \in {f, g} |-> IF k = f THEN x ELSE y]

BodyChoices ==
  { [k \in {} |-> Undefined],
    Body1("prompt", Str(Benign)), Body1("prompt", Str(Bypass)),
    Body1("prompt", Str(Inject)), Body1("prompt", Str(<<>>)),
    Body1("prompt", [type |-> "number", v |-> <<"42">>]),
    Body1("message", Str(Bypass)),
    Body2("prompt", Str(Benign), "orgId", Str(<<"org1">>)),
    Body2("prompt", Str(Bypass), "orgId", Str(<<"org1">>)) }

WithSessionToken(token) ==
  BenignHeaders \o << << SessionTokenHeader, <<token>> >> >>

Request(body, headers, userId, userRole, ip) ==
  [ body |-> body, headers |-> headers, userId |-> userId, userRole |-> userRole,
    ip |-> ip ]

LooseOrgs == OneOrg(OrgRow("pro", FALSE, AcmePro, 3))

MwScenario(o, r, orgs) == [opts |-> o, req |-> r, orgs |-> orgs]

\* every options object with every kind of body
OptionScenarios ==
  { MwScenario(o, Request(b, h, "u1", "MEMBER", Ip10b), DefaultOrgs) :
      o \in OptionChoices, b \in BodyChoices, h \in {BenignHeaders, OverrideHeaders} }

\* every kind of requester, under the three exported middlewares
RequesterScenarios ==
  { MwScenario(o, Request(b, h, u, r, ip), orgs) :
      o \in { NoOptions, [k \in {"monitorOnly"} |-> "true"],
              [k \in {"fallbackAction"} |-> "ALLOW"] },
      b \in { Body1("prompt", Str(Benign)),
              Body2("prompt", Str(Benign), "orgId", Str(<<"org1">>)) },
      h \in { BenignHeaders, WithSessionToken("tok1"), WithSessionToken("nosuch") },
      u \in {UNDEF, "u1", "u2"}, r \in {UNDEF, "ADMIN", "superadmin"},
      ip \in {Ip10b, Ip192}, orgs \in {DefaultOrgs, LooseOrgs} }

MwScenarios == OptionScenarios \cup RequesterScenarios

\* a request arrives at guardMiddleware(opts)
MwInit ==
  /\ InitCommon
  /\ caller = "middleware"
  /\ mwpc = "enter"
  /\ ctx = BaseCtx
  /\ sessionTable = DefaultSessions
  /\ \E sc \in MwScenarios :
       /\ opts = sc.opts
       /\ req = sc.req
       /\ orgTable = sc.orgs

Middleware ==
  \/ MwEnter
  \/ MwResolveEmail
  \/ MwResolveEmailFails
  \/ MwVerdict
  \/ MwCatch
  \/ MwFailureLogged
  \/ MwFailureLogFails

MwNext ==
  \/ Middleware
  \/ EngineStep
  \/ ReadFails
  \/ LogSink

MwSpec == MwInit /\ [][MwNext]_vars

\* the middleware under the event loop: an awaited promise settles and its
\* continuation runs
MwFairSpec == MwSpec /\ WF_vars(MwNext)

\* -------------------------------------------------------------------------
\* The adapters together: the middleware and the two guard routes
\* -------------------------------------------------------------------------

\* a JSON body for the guard routes: an absent string is UNDEF, an absent
\* collection None, an absent sessionIp <<>>
RouteBody(e, role, org, action, payload, token, ip, texts, headers) ==
  [ userEmail |-> e, userRole |-> role, orgId |-> org, action |-> action,
    payload |-> payload, sessionToken |-> token, sessionIp |-> ip,
    textInputs |-> texts, headers |-> headers ]

\* an organization whose trial seats are all taken
FullTrialOrgs == OneOrg(OrgRow("free_trial", FALSE, AcmePro, 5))

RouteScenario(c, body, orgs) == [caller |-> c, body |-> body, orgs |-> orgs]

\* every textual surface, posted to both routes
RouteSurfaceScenarios ==
  { RouteScenario(c, RouteBody(e, "member", o, a, p, UNDEF, <<>>, t, h), DefaultOrgs) :
      c \in {"evaluate", "check-input"}, e \in {Alice, Anonymous}, o \in {UNDEF, "org1"},
      a \in {UNDEF, "delete_any_user"}, p \in {None, Some(<< << <<"flag">>, <<"grant_all">> >> >>)},
      t \in TextInputChoices, h \in HeaderChoices }

\* every kind of verdict of the later checks, and bodies the schema refuses
RouteVerdictScenarios ==
  { RouteScenario("evaluate",
                  RouteBody(e, role, "org1", a, None, k, ip, Some(<<Benign>>), None), orgs) :
      e \in {Alice, Bob}, role \in {"member", "superadmin", "root"},
      a \in {UNDEF, "view_org_members", "export_data"},
      k \in {UNDEF, "tok1", "nosuch"}, ip \in {<<>>, Ip192},
      orgs \in {DefaultOrgs, LooseOrgs, FullTrialOrgs} }

RouteScenarios == RouteSurfaceScenarios \cup RouteVerdictScenarios

\* a request arrives at one of the guard routes
RouteInit ==
  /\ InitCommon
  /\ mwpc = "enter"
  /\ opts = NoOptions
  /\ ctx = BaseCtx
  /\ sessionTable = DefaultSessions
  /\ \E sc \in RouteScenarios :
       /\ caller = sc.caller
       /\ req = Request(sc.body, <<>>, "u1", "MEMBER", Ip10b)
       /\ orgTable = sc.orgs

Routes ==
  \/ RouteEvaluateEnter
  \/ RouteEvaluateVerdict
  \/ RouteEvaluateCatch
  \/ RouteCheckInput
  \/ RoutePostToEvaluate

AdapterInit == MwInit \/ RouteInit

AdapterNext ==
  \/ MwNext
  \/ Routes

\* requests arriving at the guard middleware and at the guard routes
AdapterSpec == AdapterInit /\ [][AdapterNext]_vars

\* -------------------------------------------------------------------------
\* The service worker on its own
\* -------------------------------------------------------------------------

\* the service worker has just been constructed; the backend is idle
QueueInit ==
  /\ InitCommon
  /\ caller = "service-worker"
  /\ mwpc = "off"
  /\ opts = NoOptions
  /\ req = NoRequest
  /\ ctx = BaseCtx
  /\ orgTable = DefaultOrgs
  /\ sessionTable = DefaultSessions

QueueNext ==
  \/ DetectionEvent
  \/ StorageSetResolves
  \/ StorageSetRejects
  \/ AlarmFlush
  \/ UploadSucceeds
  \/ UploadRejected
  \/ UploadUnreachable

QueueSpec == QueueInit /\ [][QueueNext]_vars

\* the same, with the scheduling of the event loop: a call that can be made is
\* made, and a check whose awaited read has resolved runs
FairSpec == Spec /\ WF_vars(DirectCall) /\ WF_vars(EngineStep)

\* -------------------------------------------------------------------------
\* Properties
\* -------------------------------------------------------------------------

Verdicts == {"ALLOW", "BLOCK", "ESCALATE"}

\* the evaluations that returned a verdict
Returned == { i \in 1..Len(evals) : evals[i].outcome = "returned" }

\* C1 (ordering): whenever checkOverrideAttempt matches the context, evaluate
\* runs no other check and returns reason OVERRIDE_ATTEMPT, whatever the later
\* checks would have said.
C1_OverrideWins ==
  checkOverrideAttempt(ctx, now) # NULLV =>
    /\ pc \in {"idle", "override", "done"}
    /\ pc = "done" => result.reason = "OVERRIDE_ATTEMPT" /\ Len(outcomes) = 1

\* the override check won over a content match, a role denial, a domain
\* mismatch and an unknown session token
C1_Witness ==
  /\ pc = "done"
  /\ result.reason = "OVERRIDE_ATTEMPT"
  /\ checkMaliciousInput(ctx, now) # NULLV
  /\ checkPermission(ctx, now) # NULLV
  /\ ctx.orgId = "org1"
  /\ checkDomainAccess(ctx, OrgFindUnique(orgTable, ctx.orgId), now).verdict = "BLOCK"
  /\ ctx.sessionToken = "nosuch"

\* C2 (short-circuit): a check runs only after every check before it has
\* returned null, and a store read is issued only by a check before which every
\* check returned null; so after a terminal verdict of check k no read of the
\* checks k+1..6 is issued.
C2_ShortCircuit ==
  /\ \A i \in 1..Len(outcomes) :
       /\ outcomes[i].check = EvalOrder[i]
       /\ i < Len(outcomes) => outcomes[i].r = NULLV
  /\ \A k \in 1..Len(reads) :
       \A j \in 1..(IndexOf(EvalOrder, reads[k].check) - 1) :
         /\ j <= Len(outcomes)
         /\ outcomes[j].r = NULLV

\* the domain check ended the evaluation of a context that carries a session
\* token: one organization read, no seat read, no session read
C2_Witness ==
  /\ pc = "done"
  /\ result.reason = "DOMAIN_MISMATCH"
  /\ ~Falsy(ctx.sessionToken)
  /\ reads = << [check |-> "domain", read |-> "organization.findUnique"] >>

\* the position of evaluate, in program order
Rank(p) ==
  CASE p = "idle" -> 0
    [] p \in {"done", "threw"} -> Len(EvalOrder) + 2
    [] p = "multilogin" -> Len(EvalOrder) + 1
    [] OTHER -> IndexOf(EvalOrder, p)

\* C3 (termination): every evaluation ends; it ends with a verdict unless a
\* store read rejected; the verdict is one of ALLOW, BLOCK, ESCALATE and is the
\* only non-null result of the run; evaluate never moves back to an earlier check.
C3_Terminates ==
  /\ <>(pc \in {"done", "threw"})
  /\ [](pc = "threw" => reads # <<>> /\ reads[Len(reads)].read = "rejected")
  /\ [](pc = "done" =>
          /\ result.verdict \in Verdicts
          /\ Len(evals) = 1
          /\ evals[1].result = result
          /\ \A i \in 1..Len(outcomes) :
               outcomes[i].r # NULLV => i = Len(outcomes) /\ outcomes[i].r = result)
  /\ [][Rank(pc') >= Rank(pc)]_vars

\* an evaluation that ran all six checks and both session reads and ended
\* with a verdict
C3_Witness ==
  /\ pc = "done"
  /\ Len(outcomes) = Len(EvalOrder)
  /\ Len(reads) = 2
  /\ result.verdict = "ESCALATE"

\* C4 (audit): every evaluation that returned a verdict dispatched exactly one
\* guardLog.create, carrying that verdict and reason, and no other evaluation
\* dispatched any.
C4_OneLogPerVerdict ==
  /\ Len(logWrites) = Cardinality(Returned)
  /\ pc = "done" =>
       /\ logWrites # <<>>
       /\ logWrites[Len(logWrites)].data.verdict = result.verdict
       /\ logWrites[Len(logWrites)].data.reason = result.reason
       /\ logWrites[Len(logWrites)].data.detail = result.detail
  /\ pc \notin {"done", "threw"} => Len(logWrites) = Len(evals)

\* an ALLOW/OK was returned and logged
C4_Witness ==
  /\ pc = "done"
  /\ result.verdict = "ALLOW"
  /\ result.reason = "OK"
  /\ Len(logWrites) = 1
  /\ logWrites[1].data.verdict = "ALLOW"

\* C5 (log independence): once evaluate has returned, nothing the log sink does
\* changes the verdict or makes the evaluation fail; evaluate returns while its
\* log write is still pending, and the write settles, either way, only after
\* evaluate has returned.
C5_VerdictIndependentOfLog ==
  /\ [][pc = "done" => pc' = "done" /\ result' = result]_vars
  /\ [](\A i \in 1..Len(logWrites) :
          logWrites[i].status = "failed" => pc = "done" /\ result.verdict \in Verdicts)
  /\ [][(pc # "done" /\ pc' = "done") =>
          logWrites'[Len(logWrites')].status = "pending"]_vars
  /\ [][\A i \in 1..Len(logWrites) :
          logWrites'[i].status # logWrites[i].status => pc = "done"]_vars

\* evaluate has returned a verdict and its log write has failed
C5_Witness ==
  /\ pc = "done"
  /\ result.verdict = "BLOCK"
  /\ logWrites[1].status = "failed"
  /\ consoleErrors # <<>>

\* the rows of the organization the context names, or <<>> when there is none
OrgDomainsOf(c) ==
  IF ~Falsy(c.orgId) /\ c.orgId \in DOMAIN orgTable THEN orgTable[c.orgId].domains ELSE <<>>

\* some domain row of the context's organization has the caller's domain and
\* plan free_forever
HasFreeForeverDomain ==
  \E i \in 1..Len(OrgDomainsOf(ctx)) :
    /\ toLowerCase(OrgDomainsOf(ctx)[i].domain) = extractDomain(ctx.userEmail)
    /\ OrgDomainsOf(ctx)[i].plan = "free_forever"

\* the largest finite seat cap of the plan table
MaxFiniteCap ==
  CHOOSE n \in { PLAN_SEAT_LIMITS[p] : p \in DOMAIN PLAN_SEAT_LIMITS } \ {INFINITY} :
    \A p \in DOMAIN PLAN_SEAT_LIMITS : PLAN_SEAT_LIMITS[p] # INFINITY => PLAN_SEAT_LIMITS[p] <= n

\* C6 as stated (free-forever precedence): whenever the caller's domain matches a
\* free_forever domain row of the context's organization, evaluate yields
\* ALLOW/FREE_FOREVER_CONFIRMED.
C6_Original ==
  (pc = "done" /\ HasFreeForeverDomain) =>
    result.verdict = "ALLOW" /\ result.reason = "FREE_FOREVER_CONFIRMED"

\* C6 (free-forever precedence, amended): when the override, content and role
\* checks have nothing to say and the first domain row of the context's
\* organization that has the caller's domain carries plan free_forever, evaluate
\* returns ALLOW/FREE_FOREVER_CONFIRMED from the domain check, whatever the member
\* count, and never reads the seat count or the session.
C6_FreeForeverPrecedence ==
  LET rows == OrgDomainsOf(ctx)
      rec  == FindDomainRecord(rows, extractDomain(ctx.userEmail))
  IN  ( /\ pc = "done"
        /\ checkOverrideAttempt(ctx, now) = NULLV
        /\ checkMaliciousInput(ctx, now) = NULLV
        /\ checkPermission(ctx, now) = NULLV
        /\ rec # 0
        /\ rows[rec].plan = "free_forever" )
      => /\ result.verdict = "ALLOW"
         /\ result.reason = "FREE_FOREVER_CONFIRMED"
         /\ outcomes[Len(outcomes)].check = "domain"
         /\ reads = << [check |-> "domain", read |-> "organization.findUnique"] >>

\* a free_forever domain was confirmed for an organization on the pro plan whose
\* member count is above every finite seat cap
C6_Witness ==
  /\ pc = "done"
  /\ result.reason = "FREE_FOREVER_CONFIRMED"
  /\ orgTable[ctx.orgId].plan = "pro"
  /\ orgTable[ctx.orgId].members > MaxFiniteCap
  /\ ctx.userEmail = AliceUpper

\* what the role check of the running evaluation returned, once it has run
RoleOutcome == outcomes[IndexOf(EvalOrder, "role")].r

\* C8 (role monotonicity): whenever the role check lets a role do an action, it
\* lets every role at or above it do the same action; and whether it blocks
\* depends on the role and the action only, not on the rest of the context.
C8_RoleMonotone ==
  Len(outcomes) >= IndexOf(EvalOrder, "role") =>
    /\ (RoleOutcome = NULLV) <=>
         (checkPermission([BaseCtx EXCEPT !.userRole = ctx.userRole,
                                          !.action = ctx.action], 0) = NULLV)
    /\ RoleOutcome # NULLV =>
         /\ RoleOutcome.verdict = "BLOCK"
         /\ RoleOutcome.reason = "INSUFFICIENT_PERMISSIONS"
    /\ RoleOutcome = NULLV =>
         \A r2 \in UserRoles :
           ROLE_HIERARCHY[r2] >= ROLE_HIERARCHY[ctx.userRole] =>
             checkPermission([ctx EXCEPT !.userRole = r2], now) = NULLV

\* an org_admin was let through for an action members are denied
C8_Witness ==
  /\ Len(outcomes) >= IndexOf(EvalOrder, "role")
  /\ RoleOutcome = NULLV
  /\ ctx.userRole = "org_admin"
  /\ ctx.action = "change_org_settings"
  /\ checkPermission([ctx EXCEPT !.userRole = "member"], now) # NULLV

\* some override signature matches the string
IsOverrideString(str) ==
  \E k \in 1..Len(OVERRIDE_PATTERNS) : RegexTest(OVERRIDE_PATTERNS[k].pattern, str)

\* the request carries an override signature in the prompt the middleware
\* reads or in one of its headers
CarriesOverride ==
  LET prompt == BodyField(req.body, MergeOptions(opts).promptField)
  IN  \/ prompt.type = "string" /\ IsOverrideString(prompt.v)
      \/ \E i \in 1..Len(req.headers) : IsOverrideString(HeaderString(req.headers[i]))

\* C9 as stated (no bypass): under every options object, a request whose prompt
\* or headers carry an override signature never reaches next().
C9_NoBypass ==
  (caller = "middleware" /\ CarriesOverride) => nextCalls = 0

\* C10 as stated (fallback posture): when evaluate has thrown and the middleware
\* has finished, next() was called only if the options set fallbackAction to
\* 'ALLOW'; otherwise a 503 was sent and next() was not called.
C10_FailClosed ==
  (mwpc = "finished" /\ pc = "threw") =>
    IF "fallbackAction" \in DOMAIN opts /\ opts.fallbackAction = "ALLOW"
      THEN nextCalls = 1 /\ response.sent = <<>>
      ELSE /\ nextCalls = 0
           /\ Len(response.sent) = 1
           /\ response.sent[1].status = 503

\* two verdicts agree in everything but the timestamp
SameVerdict(v, w) ==
  /\ v.verdict = w.verdict
  /\ v.reason = w.reason
  /\ v.detail = w.detail
  /\ v.risk_level = w.risk_level
  /\ v.action_taken = w.action_taken

\* C7 as stated (idempotence): two evaluations of the same context that returned
\* verdicts, with no write to the store from the start of the first to the end
\* of the second, returned the same verdict up to the timestamp.
C7_Original ==
  \A i, j \in Returned :
    (i < j /\ evals[j].storeQuiet) => SameVerdict(evals[i].result, evals[j].result)

\* C7 (idempotence, amended): two evaluations of the same context that returned
\* verdicts, with no write to the store in between, returned the same verdict
\* up to the timestamp and ran the same checks with the same results, provided
\* the context has no session token or the clock reads the same in both.
C7_Idempotent ==
  \A i, j \in Returned :
    (i < j /\ evals[j].storeQuiet /\ (Falsy(ctx.sessionToken) \/ evals[j].clockQuiet)) =>
      /\ SameVerdict(evals[i].result, evals[j].result)
      /\ Len(evals[i].outcomes) = Len(evals[j].outcomes)
      /\ \A k \in 1..Len(evals[i].outcomes) :
           (evals[i].outcomes[k].r = NULLV) <=> (evals[j].outcomes[k].r = NULLV)
      /\ evals[i].reads = evals[j].reads

\* the same context was blocked twice for its content, five minutes apart,
\* with the store untouched
C7_Witness ==
  /\ Len(evals) = 2
  /\ evals[1].result.reason = "MALICIOUS_INPUT_DETECTED"
  /\ evals[2].result.reason = "MALICIOUS_INPUT_DETECTED"
  /\ evals[2].storeQuiet
  /\ ~evals[2].clockQuiet
  /\ evals[1].result.timestamp # evals[2].result.timestamp

\* the last store read of the running evaluation rejected
LastReadRejected == reads # <<>> /\ reads[Len(reads)].read = "rejected"

\* C11 (failures propagate): a rejected lookup of the domain, seat or session
\* check makes evaluate reject at once; an evaluation that rejected carries no
\* verdict, dispatched no log write, and never turns into a verdict afterwards.
C11_FailuresPropagate ==
  /\ [](LastReadRejected =>
          /\ pc = "threw"
          /\ result = NULLV
          /\ logWrites = <<>>
          /\ guardLog = <<>>
          /\ evals[Len(evals)].outcome = "threw"
          /\ \A i \in 1..Len(outcomes) : outcomes[i].r = NULLV)
  /\ [][LastReadRejected => (pc' = "threw" /\ result' = NULLV /\ logWrites' = <<>>)]_vars

\* the seat lookup rejected after the domain check had read the organization
\* and found nothing to say
C11_Witness ==
  /\ pc = "threw"
  /\ Len(reads) = 2
  /\ reads[1] = [check |-> "domain", read |-> "organization.findUnique"]
  /\ reads[2] = [check |-> "seat", read |-> "rejected"]
  /\ result = NULLV
  /\ logWrites = <<>>

\* the responses sent so far that deny the request
Denials == { i \in 1..Len(response.sent) : response.sent[i].status = 403 }

\* C12 as stated (generic denial): every 403 an adapter sends carries the reason
\* code and the risk level and does not carry the verdict's detail.
C12_NoDetailOnBlock ==
  \A i \in Denials :
    /\ {"reason", "risk_level"} \subseteq DOMAIN response.sent[i].body
    /\ "detail" \notin DOMAIN response.sent[i].body

\* the adapter has answered an evaluation that returned ESCALATE
EscalateAnswered == mwpc = "finished" /\ pc = "done" /\ result.verdict = "ESCALATE"

\* C13 (escalation is not a rejection): when evaluate returned ESCALATE, the
\* middleware has set the three X-Guard headers and called next() without
\* sending anything, and POST /evaluate has answered 202 with the pending-review
\* message; no 403 and no 503 was sent and no error was raised.
C13_EscalateIsPending ==
  EscalateAnswered =>
    /\ \A i \in 1..Len(response.sent) : response.sent[i].status \notin {403, 503}
    /\ nextErrors = 0
    /\ caller = "middleware" =>
         /\ nextCalls = 1
         /\ response.sent = <<>>
         /\ response.headers = [escalated |-> "true", reason |-> result.reason,
                                risk_level |-> result.risk_level]
    /\ caller = "evaluate" =>
         /\ response.sent # <<>>
         /\ response.sent[Len(response.sent)].status = 202
         /\ response.sent[Len(response.sent)].body =
              EvaluateBody(result, "Request is pending admin review.")
         /\ nextCalls = 0

\* the default middleware let a caller from an unregistered domain through,
\* flagged for review
C13_Witness ==
  /\ EscalateAnswered
  /\ caller = "middleware"
  /\ ~Truthy(MergeOptions(opts).monitorOnly)
  /\ result.reason = "DOMAIN_UNKNOWN"
  /\ nextCalls = 1
  /\ response.headers.escalated = "true"

\* the verdict and reason a response body carries
Answer(body) == << body.verdict, body.reason >>

AllChecksNull ==
  /\ Len(outcomes) = Len(EvalOrder)
  /\ \A i \in 1..Len(outcomes) : outcomes[i].r = NULLV

\* C15 (default allow): an evaluation returns reason OK exactly when all six
\* checks ran and returned null, and then the verdict is ALLOW with risk low
\* and action logged.
C15_AllowOk ==
  pc = "done" =>
    /\ (result.reason = "OK") <=> AllChecksNull
    /\ AllChecksNull =>
         /\ result.verdict = "ALLOW"
         /\ result.risk_level = "low"
         /\ result.action_taken = "logged"
         /\ result.detail = <<"All guard checks passed">>
         /\ checkOverrideAttempt(ctx, now) = NULLV
         /\ checkMaliciousInput(ctx, now) = NULLV
         /\ checkPermission(ctx, now) = NULLV

\* a context with a valid session and two other recent sessions passed all six
\* checks, both session reads included
C15_Witness ==
  /\ pc = "done"
  /\ result.reason = "OK"
  /\ result.verdict = "ALLOW"
  /\ Len(reads) = 2
  /\ reads[2].read = "session.findMany"
  /\ Cardinality(sessionTable) = 3

\* the log after the step is the log before it, or that log with one more row
LogGrows ==
  \/ guardLog' = guardLog
  \/ /\ Len(guardLog') = Len(guardLog) + 1
     /\ SubSeq(guardLog', 1, Len(guardLog)) = guardLog

\* C16 (read-only engine): no step of an evaluation, of its caller or of the
\* log sink changes an Organization, OrgDomain, Session or User row: the store
\* changes only in the steps of the other writers; and the GuardLog only grows
\* by appended rows.
C16_EngineReadOnly ==
  /\ [][storeVars' # storeVars => storeWrites' = storeWrites + 1]_vars
  /\ [][(pc' # pc \/ evals' # evals \/ logWrites' # logWrites \/ guardLog' # guardLog) =>
          storeVars' = storeVars]_vars
  /\ [][LogGrows]_vars

\* two evaluations that read the store have returned and been logged, and
\* the store was never written
C16_Witness ==
  /\ Len(evals) = 2
  /\ \A i \in 1..2 : evals[i].outcome = "returned" /\ evals[i].reads # <<>>
  /\ Len(guardLog) = 2
  /\ storeWrites = 0

\* the options of the exported guardMonitor
GuardMonitorOptions == [k \in {"monitorOnly"} |-> "true"]

\* C17 as stated (monitor-only never blocks): whatever the request and whatever
\* the evaluation does, guardMonitor ends by calling next() once and sends no
\* response of its own.
C17_MonitorNeverBlocks ==
  (caller = "middleware" /\ opts = GuardMonitorOptions /\ mwpc = "finished") =>
    nextCalls = 1 /\ response.sent = <<>>

\* C18 as stated (bounded queue): the in-memory detection event queue never
\* holds more than MAX_QUEUE_SIZE events.
C18_QueueBounded == Len(eventQueue) <= MAX_QUEUE_SIZE

\* the domain check of the running evaluation has returned
DomainChecked == Len(outcomes) >= IndexOf(EvalOrder, "domain")

\* what it returned
DomainOutcome == outcomes[IndexOf(EvalOrder, "domain")].r

\* the context names an organization of the store
OrgExists == ~Falsy(ctx.orgId) /\ ctx.orgId \in DOMAIN orgTable

\* the caller's email domain, lower-cased, equals the lower-cased domain of some
\* row of the context's organization
CallerDomainRegistered ==
  /\ Len(ctx.userEmail) >= 2
  /\ \E i \in 1..Len(OrgDomainsOf(ctx)) :
       toLowerCase(OrgDomainsOf(ctx)[i].domain) = toLowerCase(ctx.userEmail[2])

\* C19 as stated (zero-domain case): for an existing organization with no
\* registered domain and restrictSameDomain false, the domain check returns
\* ESCALATE/DOMAIN_UNKNOWN.
C19_Original ==
  ( /\ DomainChecked
    /\ OrgExists
    /\ Len(OrgDomainsOf(ctx)) = 0
    /\ ~orgTable[ctx.orgId].restrictSameDomain )
  => /\ DomainOutcome.verdict = "ESCALATE"
     /\ DomainOutcome.reason = "DOMAIN_UNKNOWN"

\* C19 (zero-domain case, amended): for an existing organization with no
\* registered domain the domain check abstains (returns null), whether
\* restrictSameDomain is set or not, and the evaluation goes on to the seat check.
C19_ZeroDomainsAbstain ==
  ( /\ DomainChecked
    /\ OrgExists
    /\ Len(OrgDomainsOf(ctx)) = 0 )
  => /\ DomainOutcome = NULLV
     /\ pc \notin {"domain", "logging", "done"}
          \/ Len(outcomes) > IndexOf(EvalOrder, "domain")

\* an evaluation for bob@other.io in an organization without domains and with
\* restrictSameDomain false has returned, and its domain check returned null
C19_Witness ==
  /\ pc = "done"
  /\ OrgExists
  /\ Len(OrgDomainsOf(ctx)) = 0
  /\ ~orgTable[ctx.orgId].restrictSameDomain
  /\ ctx.userEmail = Bob
  /\ DomainChecked
  /\ DomainOutcome = NULLV

\* C20 (unregistered caller): once the domain check has returned, (a) for an
\* existing organization with at least one registered domain, none of which
\* equals the caller's email domain when both are lower-cased, it returned
\* BLOCK/DOMAIN_MISMATCH with risk medium if restrictSameDomain is true and
\* ESCALATE/DOMAIN_UNKNOWN with risk medium and action flagged_for_review
\* otherwise; (b) a caller whose domain is registered in any spelling gets
\* neither of the two; (c) it returned null, without reading the store when
\* orgId is absent, when orgId is absent or names no organization.
C20_UnregisteredCaller ==
  DomainChecked =>
    /\ (OrgExists /\ Len(OrgDomainsOf(ctx)) >= 1 /\ ~CallerDomainRegistered) =>
         IF orgTable[ctx.orgId].restrictSameDomain
           THEN /\ DomainOutcome.verdict = "BLOCK"
                /\ DomainOutcome.reason = "DOMAIN_MISMATCH"
                /\ DomainOutcome.risk_level = "medium"
           ELSE /\ DomainOutcome.verdict = "ESCALATE"
                /\ DomainOutcome.reason = "DOMAIN_UNKNOWN"
                /\ DomainOutcome.risk_level = "medium"
                /\ DomainOutcome.action_taken = "flagged_for_review"
    /\ (OrgExists /\ CallerDomainRegistered) =>
         DomainOutcome.reason \notin {"DOMAIN_MISMATCH", "DOMAIN_UNKNOWN"}
    /\ ~OrgExists => DomainOutcome = NULLV
    /\ Falsy(ctx.orgId) =>
         \A i \in 1..Len(reads) : reads[i].check # "domain"

\* bob@other.io was flagged for review by an organization that registers other
\* domains and does not restrict to them
C20_Witness ==
  /\ pc = "done"
  /\ ctx.userEmail = Bob
  /\ OrgExists
  /\ Len(OrgDomainsOf(ctx)) >= 1
  /\ ~orgTable[ctx.orgId].restrictSameDomain
  /\ result.verdict = "ESCALATE"
  /\ result.reason = "DOMAIN_UNKNOWN"
  /\ result.action_taken = "flagged_for_review"

\* the seat check of the running evaluation has returned
SeatChecked == Len(outcomes) >= IndexOf(EvalOrder, "seat")

\* what it returned
SeatOutcome == outcomes[IndexOf(EvalOrder, "seat")].r

\* the plans without a seat cap
UnboundedPlans == {"enterprise", "free_forever"}

\* C21 (seat limit): for an existing organization none of whose domain rows
\* gives the caller's domain free_forever, the seat check returns
\* BLOCK/SEAT_LIMIT_REACHED with risk low and action blocked exactly when the
\* plan is capped and the member count is at or above the cap: 25 for pro, 5 for
\* free_trial, for no plan and for a plan the table does not know; enterprise
\* and free_forever never block. Otherwise it returns null.
C21_SeatLimit ==
  (SeatChecked /\ OrgExists /\ ~HasFreeForeverDomain) =>
    LET org == orgTable[ctx.orgId]
        cap == IF org.plan = "pro" THEN 25 ELSE 5
    IN  IF org.plan \notin UnboundedPlans /\ org.members >= cap
          THEN /\ SeatOutcome.verdict = "BLOCK"
               /\ SeatOutcome.reason = "SEAT_LIMIT_REACHED"
               /\ SeatOutcome.risk_level = "low"
               /\ SeatOutcome.action_taken = "blocked"
          ELSE SeatOutcome = NULLV

\* a free_trial organization with exactly 5 members was refused a seat
C21_Witness ==
  /\ pc = "done"
  /\ OrgExists
  /\ orgTable[ctx.orgId].plan = "free_trial"
  /\ orgTable[ctx.orgId].members = 5
  /\ result.verdict = "BLOCK"
  /\ result.reason = "SEAT_LIMIT_REACHED"

\* the session check of the running evaluation has returned
SessionChecked == Len(outcomes) >= IndexOf(EvalOrder, "session")

\* what it returned
SessionOutcome == outcomes[IndexOf(EvalOrder, "session")].r

\* the stored sessions with the presented token
Presented == { s \in sessionTable : s.token = ctx.sessionToken }

\* the reads the session check issued
SessionReads == SelectSeq(reads, LAMBDA r : r.check = "session")

\* C22 (session steps 1-2 come first): once the session check has returned,
\* a presented token that no stored session carries gave BLOCK/SESSION_INVALID
\* with risk high; a token whose session belongs to another email than
\* ctx.userEmail gave BLOCK/SESSION_INVALID with risk critical and action
\* session_terminated, whatever the session's age and IP and however many recent
\* IPs the email has, and the recent sessions were not read; with no
\* sessionToken the check returned null and read nothing.
C22_SessionOwnerFirst ==
  SessionChecked =>
    /\ Falsy(ctx.sessionToken) => SessionOutcome = NULLV /\ SessionReads = <<>>
    /\ (~Falsy(ctx.sessionToken) /\ Presented = {}) =>
         /\ SessionOutcome.verdict = "BLOCK"
         /\ SessionOutcome.reason = "SESSION_INVALID"
         /\ SessionOutcome.risk_level = "high"
         /\ SessionOutcome.action_taken = "session_terminated"
    /\ (~Falsy(ctx.sessionToken) /\ \E s \in Presented : s.userEmail # ctx.userEmail) =>
         /\ SessionOutcome.verdict = "BLOCK"
         /\ SessionOutcome.reason = "SESSION_INVALID"
         /\ SessionOutcome.risk_level = "critical"
         /\ SessionOutcome.action_taken = "session_terminated"
         /\ Len(SessionReads) = 1

\* Bob presented Alice's session, which is past its TTL and was opened from
\* another network, while Bob has recent sessions from three networks: the
\* verdict is the owner mismatch
C22_Witness ==
  /\ pc = "done"
  /\ ctx.userEmail = Bob
  /\ \E s \in Presented :
       /\ s.userEmail = Alice
       /\ now - s.createdAt > s.ttlSeconds.v * MsPerSecond
       /\ s.ipAddress # <<>> /\ ctx.sessionIp # <<>>
       /\ IpClass(s.ipAddress) # IpClass(ctx.sessionIp)
  /\ Cardinality({ s.ipAddress : s \in SessionFindMany(sessionTable, Bob, now - TenMinutesMs) })
       >= MultiLoginIps
  /\ result.reason = "SESSION_INVALID"
  /\ result.risk_level = "critical"

\* the presented token resolves to a session of ctx.userEmail
OwnSessionPresented ==
  /\ ~Falsy(ctx.sessionToken)
  /\ Presented # {}
  /\ \A s \in Presented : s.userEmail = ctx.userEmail

\* the session the presented token resolves to
TheSession == CHOOSE s \in Presented : TRUE

\* its age exceeds its TTL (3600 seconds when the row has none), both in
\* milliseconds
PastTtl ==
  now - TheSession.createdAt >
    (IF TheSession.ttlSeconds.has THEN TheSession.ttlSeconds.v ELSE 3600) * 1000

\* both addresses are there and their first octets differ
IpClassChanged ==
  /\ ctx.sessionIp # <<>>
  /\ TheSession.ipAddress # <<>>
  /\ Head(TheSession.ipAddress) # Head(ctx.sessionIp)

\* the distinct addresses of the sessions of ctx.userEmail created in the ten
\* minutes up to now
RecentIps ==
  { s.ipAddress : s \in { t \in sessionTable : /\ t.userEmail = ctx.userEmail
                                               /\ t.createdAt >= now - 600000 } }
    \ {<<>>}

\* C23 (expiry threshold): for a presented session that belongs to
\* ctx.userEmail, the session check returned BLOCK/SESSION_EXPIRED with risk
\* medium and action session_terminated exactly when the session's age is
\* strictly greater than its TTL; at an age equal to the TTL it is not expired.
\* An expired session is reported as such whatever the IPs, and the recent
\* sessions are then not read.
C23_ExpiryThreshold ==
  (SessionChecked /\ OwnSessionPresented) =>
    /\ (SessionOutcome.reason = "SESSION_EXPIRED") <=> PastTtl
    /\ PastTtl =>
         /\ SessionOutcome.verdict = "BLOCK"
         /\ SessionOutcome.risk_level = "medium"
         /\ SessionOutcome.action_taken = "session_terminated"
         /\ Len(SessionReads) = 1

\* Alice's own session, past its TTL, presented from another network while she
\* has recent sessions from three networks, was reported expired
C23_Witness ==
  /\ pc = "done"
  /\ OwnSessionPresented
  /\ PastTtl
  /\ IpClassChanged
  /\ Cardinality(RecentIps) >= 3
  /\ result.reason = "SESSION_EXPIRED"

\* C24 (IP-class change is a soft signal): for a presented session that belongs
\* to ctx.userEmail and is not past its TTL, if the session's recorded IP and the
\* request IP are both present and their first octets differ, the session check
\* returned ESCALATE/SESSION_INVALID with risk high and action
\* flagged_for_review, not a BLOCK, without reading the recent sessions; if
\* either IP is absent, or the first octets agree, the step decides nothing and
\* the check goes on to read the recent sessions.
C24_IpClassSoftSignal ==
  (SessionChecked /\ OwnSessionPresented /\ ~PastTtl) =>
    IF IpClassChanged
      THEN /\ SessionOutcome.verdict = "ESCALATE"
           /\ SessionOutcome.reason = "SESSION_INVALID"
           /\ SessionOutcome.risk_level = "high"
           /\ SessionOutcome.action_taken = "flagged_for_review"
           /\ Len(SessionReads) = 1
      ELSE /\ SessionOutcome.reason # "SESSION_INVALID"
           /\ Len(SessionReads) = 2

\* Alice's fresh session, opened from 10.x, was presented from 192.x: the
\* request was flagged for review
C24_Witness ==
  /\ pc = "done"
  /\ OwnSessionPresented
  /\ ~PastTtl
  /\ IpClassChanged
  /\ result.verdict = "ESCALATE"
  /\ result.reason = "SESSION_INVALID"

\* steps 1-4 of the session check have nothing to report
SessionStepsPass == OwnSessionPresented /\ ~PastTtl /\ ~IpClassChanged

\* C25 (multi-login): when steps 1-4 of the session check do not trigger, the
\* check returned ESCALATE/SUSPICIOUS_MULTI_LOGIN with risk high and action
\* flagged_for_review exactly when the sessions of ctx.userEmail created in the
\* last ten minutes (the boundary included) carry three or more distinct
\* non-null IPs, and null otherwise; and the recent sessions are read only
\* after steps 1-4 have passed.
C25_MultiLogin ==
  /\ (SessionChecked /\ SessionStepsPass) =>
       IF Cardinality(RecentIps) >= 3
         THEN /\ SessionOutcome.verdict = "ESCALATE"
              /\ SessionOutcome.reason = "SUSPICIOUS_MULTI_LOGIN"
              /\ SessionOutcome.risk_level = "high"
              /\ SessionOutcome.action_taken = "flagged_for_review"
         ELSE SessionOutcome = NULLV
  /\ \A i \in 1..Len(reads) :
       reads[i].read = "session.findMany" =>
         /\ SessionStepsPass
         /\ i > 1
         /\ reads[i - 1] = [check |-> "session", read |-> "session.findUnique"]

\* Alice's fresh session was presented from its own network while she has
\* recent sessions from three networks: the request was flagged as a multi-login
C25_Witness ==
  /\ pc = "done"
  /\ SessionStepsPass
  /\ Cardinality(RecentIps) >= 3
  /\ result.verdict = "ESCALATE"
  /\ result.reason = "SUSPICIOUS_MULTI_LOGIN"

\* the role check of the running evaluation has returned
RoleChecked == Len(outcomes) >= IndexOf(EvalOrder, "role")

\* C26 (role-based action guard): the role check returns null when ctx.action
\* is absent or is not an action of the matrix; for an action of the matrix it
\* returns BLOCK/INSUFFICIENT_PERMISSIONS with risk medium and action blocked
\* exactly when the rank of ctx.userRole is below the rank of the role the
\* matrix requires, and null otherwise.
C26_RoleGuard ==
  RoleChecked =>
    IF /\ ctx.action \in GuardActions
       /\ ROLE_HIERARCHY[ctx.userRole] < ROLE_HIERARCHY[ACTION_MIN_ROLE[ctx.action]]
      THEN /\ RoleOutcome.verdict = "BLOCK"
           /\ RoleOutcome.reason = "INSUFFICIENT_PERMISSIONS"
           /\ RoleOutcome.risk_level = "medium"
           /\ RoleOutcome.action_taken = "blocked"
      ELSE RoleOutcome = NULLV

\* an org_admin asked for promote_to_org_admin, which takes a superadmin, and
\* was blocked
C26_Witness ==
  /\ pc = "done"
  /\ ctx.userRole = "org_admin"
  /\ ctx.action = "promote_to_org_admin"
  /\ ACTION_MIN_ROLE[ctx.action] = "superadmin"
  /\ result.verdict = "BLOCK"
  /\ result.reason = "INSUFFICIENT_PERMISSIONS"

\* what the override check of the running evaluation returned
OverrideOutcome == outcomes[IndexOf(EvalOrder, "override")].r

\* an override signature occurs in a text input, in the serialized payload or
\* in a header written as key=value
SignatureInTextInputs ==
  ctx.textInputs.has /\ \E i \in 1..Len(ctx.textInputs.v) : IsOverrideString(ctx.textInputs.v[i])

SignatureInPayload == ctx.payload.has /\ IsOverrideString(JSONStringify(ctx.payload.v))

SignatureInHeaders ==
  ctx.headers.has /\ \E i \in 1..Len(ctx.headers.v) :
                       IsOverrideString(ctx.headers.v[i][1] \o <<"=">> \o ctx.headers.v[i][2])

\* C27 (override detection covers every textual surface): the override check
\* returns BLOCK/OVERRIDE_ATTEMPT with risk critical and action
\* session_terminated when an override signature occurs in an element of
\* textInputs, in the serialized payload or in a header rendered as key=value,
\* and null only when none of the three carries one; role, organization and
\* action have no part in the decision.
C27_OverrideSurfaces ==
  Len(outcomes) >= IndexOf(EvalOrder, "override") =>
    /\ IF SignatureInTextInputs \/ SignatureInPayload \/ SignatureInHeaders
         THEN /\ OverrideOutcome.verdict = "BLOCK"
              /\ OverrideOutcome.reason = "OVERRIDE_ATTEMPT"
              /\ OverrideOutcome.risk_level = "critical"
              /\ OverrideOutcome.action_taken = "session_terminated"
         ELSE OverrideOutcome = NULLV
    /\ \A role \in UserRoles, org \in {UNDEF, "org1"}, action \in GuardActions \cup {UNDEF} :
         LET other == checkOverrideAttempt([ctx EXCEPT !.userRole = role, !.orgId = org,
                                                       !.action = action], now)
         IN  /\ other.verdict = OverrideOutcome.verdict
             /\ other.reason = OverrideOutcome.reason

\* a request whose only override signature is in a header was blocked
C27_Witness ==
  /\ pc = "done"
  /\ ~SignatureInTextInputs
  /\ ~SignatureInPayload
  /\ SignatureInHeaders
  /\ result.reason = "OVERRIDE_ATTEMPT"

\* the reason codes of the specification
SpecReasons ==
  {"OK", "SEAT_LIMIT_REACHED", "DOMAIN_MISMATCH", "DOMAIN_UNKNOWN",
   "INSUFFICIENT_PERMISSIONS", "MALICIOUS_INPUT_DETECTED", "SESSION_EXPIRED",
   "SESSION_INVALID", "SUSPICIOUS_MULTI_LOGIN", "OVERRIDE_ATTEMPT",
   "FREE_FOREVER_CONFIRMED"}

\* C28 (verdict field consistency): every verdict evaluate returns has a reason
\* of the specification's closed set; a BLOCK has action blocked or
\* session_terminated; an ESCALATE has action flagged_for_review; an ALLOW has
\* reason OK or FREE_FOREVER_CONFIRMED, risk low and action logged; and the
\* user snapshot is the context's email, the lower-cased part of that email
\* after the '@' (empty when there is none) and the context's role.
C28_VerdictConsistent ==
  pc = "done" =>
    /\ result.verdict \in {"ALLOW", "BLOCK", "ESCALATE"}
    /\ result.reason \in SpecReasons
    /\ result.risk_level \in {"low", "medium", "high", "critical"}
    /\ result.verdict = "BLOCK" => result.action_taken \in {"blocked", "session_terminated"}
    /\ result.verdict = "ESCALATE" => result.action_taken = "flagged_for_review"
    /\ result.verdict = "ALLOW" =>
         /\ result.reason \in {"OK", "FREE_FOREVER_CONFIRMED"}
         /\ result.risk_level = "low"
         /\ result.action_taken = "logged"
    /\ result.user.email = ctx.userEmail
    /\ result.user.domain =
         (IF Len(ctx.userEmail) >= 2 THEN toLowerCase(ctx.userEmail[2]) ELSE "")
    /\ result.user.role = ctx.userRole

\* a verdict was returned for alice@ACME.COM, and its snapshot carries the
\* domain acme.com
C28_Witness ==
  /\ pc = "done"
  /\ ctx.userEmail = AliceUpper
  /\ result.verdict = "ALLOW"
  /\ result.reason = "FREE_FOREVER_CONFIRMED"
  /\ result.user.domain = "acme.com"

\* how many times the middleware has resolved the request: calls of next() and
\* responses sent
Resolutions == nextCalls + Len(response.sent)

\* C29 (one resolution per request): the guard middleware never resolves a
\* request twice, and on every path (skip, no prompt, ALLOW, BLOCK, ESCALATE,
\* monitor-only, a failed evaluation under either fallback, a failed write of
\* the failure log) it ends having either called next() once or sent one
\* response.
C29_ResolvedOnce ==
  /\ [](Resolutions <= 1)
  /\ [](mwpc = "finished" => Resolutions = 1)
  /\ <>[](mwpc = "finished")

\* the evaluation failed, the write of the failure log failed too, and the
\* request went on to its handler under fallbackAction ALLOW
C29_Witness ==
  /\ mwpc = "finished"
  /\ pc = "threw"
  /\ consoleErrors # <<>>
  /\ consoleErrors[Len(consoleErrors)] = "[GuardMiddleware] Failed to log guard failure"
  /\ MergeOptions(opts).fallbackAction = "ALLOW"
  /\ nextCalls = 1
  /\ response.sent = <<>>

\* the step in which the seat check reads the organization and returns
SeatCheckDecides ==
  /\ pc = "seat"
  /\ ~Falsy(ctx.orgId)
  /\ Len(outcomes') = Len(outcomes) + 1

\* what the domain check would return on the organization as the seat check
\* reads it
DomainAgain == checkDomainAccess(ctx, OrgFindUnique(orgTable, ctx.orgId), now)

\* the seat check finds the caller's domain free_forever and abstains
SeatAbstainsFreeForever ==
  LET orgRead == OrgFindUnique(orgTable, ctx.orgId)
  IN  /\ orgRead.found
      /\ LET rec == FindDomainRecord(orgRead.row.domains, extractDomain(ctx.userEmail))
         IN  rec # 0 /\ orgRead.row.domains[rec].plan = "free_forever"

\* C30 as stated (single snapshot per evaluation): the seat check decides on the
\* state of the organization the domain check decided on, also when another
\* process writes the organization between the two: on the organization the
\* seat check reads, the domain check would return what it did return, and the
\* seat check never abstains for a free_forever domain the domain check did not
\* see.
C30_SingleSnapshot ==
  [][SeatCheckDecides =>
       /\ DomainAgain.verdict = DomainOutcome.verdict
       /\ DomainAgain.reason = DomainOutcome.reason
       /\ ~SeatAbstainsFreeForever]_vars

====
